---- MODULE Spec2Model ----
(***************************************************************************)
(* Shell-completion engine of click (src/click/shell_completion.py and the *)
(* older src/click/_bashcomplete.py): resolving a token stream to a        *)
(* context, classifying the incomplete word, and gathering candidates.     *)
(*                                                                         *)
(* Strings are TLA+ strings; startswith, partition and sorted() are        *)
(* computed character by character.  Python's None is the string None      *)
(* below, which no token, name or help text of the model equals.           *)
(***************************************************************************)
EXTENDS Integers, Sequences, FiniteSets, TLC

None == "<None>"

WORDBREAK == "="

\* Longest token stream handed to the engine.
MaxArgs == 3

\* The most words a line holds after the program name.
MaxWords == 2

\* The most calls of add_completion_class.
MaxRegistrations == 2

(***************************************************************************)
(* Strings                                                                 *)
(***************************************************************************)

Min(a, b) == IF a < b THEN a ELSE b

\* Python's s[m-1:n]: a slice clipped to the length of s.
Slice(s, m, n) == SubSeq(s, m, Min(n, Len(s)))

\* str.startswith
StartsWith(s, p) == Len(p) <= Len(s) /\ SubSeq(s, 1, Len(p)) = p

\* Characters of the model's strings in code-point order.
Alphabet == " -.0123456789<=>ABCDEFGHIJKLMNOPQRSTUVWXYZ_abcdefghijklmnopqrstuvwxyz"

CharRank(c) == CHOOSE i \in 1..Len(Alphabet) : SubSeq(Alphabet, i, i) = c

\* Python's str.__lt__: lexicographic by code point.
RECURSIVE StrLess(_, _)
StrLess(a, b) ==
    IF b = "" THEN FALSE
    ELSE IF a = "" THEN TRUE
    ELSE LET ca == CharRank(SubSeq(a, 1, 1))
             cb == CharRank(SubSeq(b, 1, 1))
         IN IF ca # cb THEN ca < cb
            ELSE StrLess(SubSeq(a, 2, Len(a)), SubSeq(b, 2, Len(b)))

\* Index of the first occurrence of character c in s, 0 when absent (str.find + 1).
RECURSIVE FindFrom(_, _, _)
FindFrom(s, c, i) ==
    IF i > Len(s) THEN 0
    ELSE IF SubSeq(s, i, i) = c THEN i
    ELSE FindFrom(s, c, i + 1)

Find(s, c) == FindFrom(s, c, 1)

\* c in s, for a one-character c.
Contains(s, c) == Find(s, c) > 0

\* needle in s, for strings (the substring test of a callback).
HasSubstring(s, needle) ==
    \E i \in 1..(Len(s) + 1) :
        i + Len(needle) - 1 <= Len(s) /\ SubSeq(s, i, i + Len(needle) - 1) = needle

\* str.partition(sep)[0] and [2] for a one-character separator.
PartitionHead(s, sep) ==
    IF Contains(s, sep) THEN SubSeq(s, 1, Find(s, sep) - 1) ELSE s

PartitionTail(s, sep) ==
    IF Contains(s, sep) THEN SubSeq(s, Find(s, sep) + 1, Len(s)) ELSE ""

\* x in list
InSeq(x, seq) == \E i \in 1..Len(seq) : seq[i] = x

\* [f(x) for x in seq if keep(x)] is written with SelectSeq and this map.
RECURSIVE Flatten(_)
Flatten(seqs) == IF seqs = <<>> THEN <<>> ELSE Head(seqs) \o Flatten(Tail(seqs))

(***************************************************************************)
(* Command tree: parameters and commands (click.core, read-only here)      *)
(***************************************************************************)

\* click.Option as the completion code reads it.
Option(name, opts, secondary_opts, nargs, is_flag, multiple, hidden, help, choices, autocompletion) ==
    [cls |-> "Option", name |-> name, opts |-> opts,
     secondary_opts |-> secondary_opts, nargs |-> nargs, is_flag |-> is_flag,
     multiple |-> multiple, hidden |-> hidden, help |-> help,
     required |-> FALSE, choices |-> choices, autocompletion |-> autocompletion]

\* click.Argument; choices = None-free sequence when the type is Choice,
\* <<>> when it is a plain string type.
Argument(name, nargs, required, choices, autocompletion) ==
    [cls |-> "Argument", name |-> name, opts |-> <<name>>,
     secondary_opts |-> <<>>, nargs |-> nargs, is_flag |-> FALSE,
     multiple |-> FALSE, hidden |-> FALSE, help |-> None,
     required |-> required, choices |-> choices, autocompletion |-> autocompletion]

\* isinstance(param.type, Choice)
IsChoice(param) == param.choices # <<>>

\* The --help option every command appends to its parameters.
HelpOption ==
    Option("help", <<"--help">>, <<>>, 1, TRUE, FALSE, FALSE,
           "Show this message and exit.", <<>>, None)

\* click.Command / click.Group; commands lists the children's ids in the
\* order of list_commands (sorted by name).
Command(name, hidden, short_help, params) ==
    [cls |-> "Command", name |-> name, chain |-> FALSE, hidden |-> hidden,
     short_help |-> short_help, params |-> params, commands |-> <<>>]

Group(name, chain, hidden, short_help, params, commands) ==
    [cls |-> "Group", name |-> name, chain |-> chain, hidden |-> hidden,
     short_help |-> short_help, params |-> params, commands |-> commands]

\* The command trees completion is run against, keyed by node id.  The root
\* of each tree is named cli; a chained group has only leaf children (click
\* refuses a multi command below a chained one).
Commands ==
    [id \in {"opts", "multi",
             "grp", "grp.asub", "grp.asub.bsub", "grp.hsub", "grp.sub",
             "chain", "chain.asub", "chain.bsub", "chain.csub",
             "deep", "deep.sub", "deep.sub.bsub", "deep.sub.csub",
             "deep.sub.csub.dsub", "deep.sub.csub.esub"} |->
      CASE id = "opts" ->
             Command("cli", FALSE, "", <<
               Option("shout", <<"--shout">>, <<"--no-shout">>, 1, TRUE, FALSE,
                      FALSE, None, <<>>, None),
               Option("pos", <<"--pos">>, <<>>, 2, FALSE, FALSE, FALSE,
                      "pos help", <<"pos1", "pos2">>, None),
               Option("name", <<"--name">>, <<>>, 1, FALSE, FALSE, TRUE,
                      None, <<"n1", "n2">>, None),
               Argument("arg", 1, FALSE, <<"arg1", "arg2">>, None)>>)
        [] id = "multi" ->
             Command("cli", FALSE, "", <<
               Option("message", <<"--message", "-m">>, <<>>, 1, FALSE, TRUE,
                      FALSE, "message help", <<>>, "describe_colors"),
               Option("opt", <<"--opt">>, <<>>, 1, FALSE, FALSE, FALSE,
                      None, <<"opt", "option">>, "get_colors"),
               Argument("args", -1, FALSE, <<>>, "_complete")>>)
        [] id = "grp" ->
             Group("cli", FALSE, FALSE, "", <<
               Option("cli_opt", <<"--cli-opt">>, <<>>, 1, FALSE, FALSE, FALSE,
                      None, <<>>, None)>>,
               <<"grp.asub", "grp.hsub", "grp.sub">>)
        [] id = "grp.asub" ->
             Group("asub", FALSE, TRUE, "", <<>>, <<"grp.asub.bsub">>)
        [] id = "grp.asub.bsub" ->
             Command("bsub", FALSE, "", <<>>)
        [] id = "grp.hsub" ->
             Command("hsub", TRUE, "", <<
               Option("hname", <<"--hname">>, <<>>, 1, FALSE, FALSE, FALSE,
                      None, <<>>, None)>>)
        [] id = "grp.sub" ->
             Command("sub", FALSE, "sub help", <<
               Option("local_opt", <<"--local-opt">>, <<>>, 1, FALSE, FALSE,
                      FALSE, None, <<>>, None),
               Argument("pair", 2, TRUE, <<>>, "search_colors")>>)
        [] id = "chain" ->
             Group("cli", TRUE, FALSE, "", <<
               Option("cli_opt", <<"--cli-opt">>, <<>>, 1, FALSE, FALSE, FALSE,
                      None, <<>>, None)>>,
               <<"chain.asub", "chain.bsub", "chain.csub">>)
        [] id = "chain.asub" ->
             Command("asub", FALSE, "", <<
               Option("asub_opt", <<"--asub-opt">>, <<>>, 1, FALSE, FALSE,
                      FALSE, None, <<>>, None)>>)
        [] id = "chain.bsub" ->
             Command("bsub", FALSE, "bsub help", <<
               Option("bsub_opt", <<"--bsub-opt">>, <<>>, 1, FALSE, FALSE,
                      FALSE, None, <<>>, None)>>)
        [] id = "chain.csub" ->
             Command("csub", TRUE, "", <<
               Argument("arg", 1, FALSE, <<"carg1", "carg2">>, None)>>)
        [] id = "deep" ->
             Group("cli", FALSE, FALSE, "", <<>>, <<"deep.sub">>)
        [] id = "deep.sub" ->
             Group("sub", FALSE, FALSE, "", <<>>,
                   <<"deep.sub.bsub", "deep.sub.csub">>)
        [] id = "deep.sub.bsub" ->
             Group("bsub", FALSE, FALSE, "", <<>>, <<>>)
        [] id = "deep.sub.csub" ->
             Group("csub", TRUE, FALSE, "csub help", <<>>,
                   <<"deep.sub.csub.dsub", "deep.sub.csub.esub">>)
        [] id = "deep.sub.csub.dsub" ->
             Command("dsub", FALSE, "", <<>>)
        [] id = "deep.sub.csub.esub" ->
             Command("esub", FALSE, "esub help", <<>>)]

\* The roots a completion request may name.
Roots == {"opts", "multi", "grp", "chain", "deep"}

\* The words a user types against each tree: command names, option
\* spellings, values, the end-of-options sentinel and the word break.
Vocabulary(root) ==
    CASE root = "opts"  -> {"--shout", "--pos", "--name", "pos1", "arg1", "--"}
      [] root = "multi" -> {"-m", "--opt", "opt", "name", "--", "="}
      [] root = "grp"   -> {"asub", "hsub", "sub", "bsub", "--cli-opt", "--local-opt"}
      [] root = "chain" -> {"asub", "bsub", "csub", "--asub-opt", "--", "bogus"}
      [] root = "deep"  -> {"sub", "bsub", "csub", "dsub", "esub", "x"}

\* The word under the cursor.
Incompletes(root) ==
    CASE root = "opts"  -> {"", "-", "--p", "p", "--pos=p", "--name=", "=",
                            "--name==", "--shout=--name=n"}
      [] root = "multi" -> {"", "-", "--m", "o", "--opt=--", "--=-", "="}
      [] root = "grp"   -> {"", "-", "s", "h", "--local-opt=re", "b"}
      [] root = "chain" -> {"", "-", "b", "c", "--asub-opt=b", "--b"}
      [] root = "deep"  -> {"", "-", "e", "d", "c", "b"}

\* isinstance(cmd, MultiCommand)
IsMultiCommand(cmd) == cmd.cls = "Group"

\* Command.get_params: the declared parameters, then the help option.
get_params(cmd) == Append(cmd.params, HelpOption)

\* MultiCommand.list_commands: the children's names.
list_commands(cmd) == [i \in 1..Len(cmd.commands) |-> Commands[cmd.commands[i]].name]

\* MultiCommand.get_command: the id of the child called name, or None.
get_command(cmd, name) ==
    IF \E i \in 1..Len(cmd.commands) : Commands[cmd.commands[i]].name = name
    THEN cmd.commands[CHOOSE i \in 1..Len(cmd.commands) :
                          Commands[cmd.commands[i]].name = name]
    ELSE None

(***************************************************************************)
(* The parsing engine in resilient mode (click.parser, click.core):        *)
(* which tokens a command's options consume, which values its arguments    *)
(* receive and which tokens are left over.  Option values are never read   *)
(* by the completion code and are not kept.                                *)
(***************************************************************************)

\* A parsed value: None, or the strings collected (one for nargs = 1).
NoValue == [none |-> TRUE, val |-> <<>>]

Value(strs) == [none |-> FALSE, val |-> strs]

IsAlnum(c) == CharRank(c) \in (CharRank("0")..CharRank("9"))
                  \cup (CharRank("A")..CharRank("Z"))
                  \cup (CharRank("a")..CharRank("z"))

\* parser.split_opt(opt)[0]: the prefix of an option spelling.
split_opt_prefix(opt) ==
    IF opt = "" THEN ""
    ELSE IF IsAlnum(SubSeq(opt, 1, 1)) THEN ""
    ELSE IF Slice(opt, 2, 2) = Slice(opt, 1, 1) THEN Slice(opt, 1, 2)
    ELSE Slice(opt, 1, 1)

\* parser.Option.__init__: a spelling is short iff prefix and name are one
\* character each.
IsShortOpt(opt) ==
    Len(split_opt_prefix(opt)) = 1 /\ Len(opt) - Len(split_opt_prefix(opt)) = 1

\* The spellings Option.add_to_parser registers for a parameter.
ParserSpellings(param) ==
    IF param.cls # "Option" THEN <<>>
    ELSE IF param.is_flag THEN param.opts \o param.secondary_opts
    ELSE param.opts

\* OptionParser._long_opt / _short_opt lookup: index of the parameter that
\* owns the spelling (the last one registered), 0 when unknown.
OptLookup(params, opt, short) ==
    LET owners == {i \in 1..Len(params) :
                       /\ InSeq(opt, ParserSpellings(params[i]))
                       /\ IsShortOpt(opt) = short}
    IN IF owners = {} THEN 0
       ELSE CHOOSE i \in owners : \A j \in owners : j <= i

\* An option that takes values removes nargs tokens from rargs, or fails
\* (BadOptionUsage) when fewer remain; pending records that option.
take_option_values(param, rargs, st) ==
    IF Len(rargs) < param.nargs
    THEN [st EXCEPT !.err = TRUE, !.pending = param.name, !.rargs = rargs]
    ELSE [st EXCEPT !.rargs = SubSeq(rargs, param.nargs + 1, Len(rargs))]

\* OptionParser._match_long_opt for a known option.
match_long_opt(param, explicit_value, st) ==
    IF ~param.is_flag
    THEN take_option_values(param,
             IF explicit_value # None THEN <<explicit_value>> \o st.rargs
             ELSE st.rargs, st)
    ELSE IF explicit_value # None THEN [st EXCEPT !.err = TRUE]
    ELSE st

\* OptionParser._match_short_opt from the k-th character of arg on.
RECURSIVE match_short_opt(_, _, _, _)
match_short_at(params, arg, k, st, i) ==
    IF i = 0 THEN [st EXCEPT !.err = TRUE]
    ELSE IF ~params[i].is_flag
    THEN take_option_values(params[i],
             IF k < Len(arg)
             THEN <<SubSeq(arg, k + 1, Len(arg))>> \o st.rargs
             ELSE st.rargs, st)
    ELSE match_short_opt(params, arg, k + 1, st)

match_short_opt(params, arg, k, st) ==
    IF k > Len(arg) THEN st
    ELSE match_short_at(params, arg, k, st,
             OptLookup(params, SubSeq(arg, 1, 1) \o SubSeq(arg, k, k), TRUE))

\* OptionParser._process_opts, i being the owner of the long spelling.
process_opts_found(params, arg, st, i) ==
    IF i # 0
    THEN match_long_opt(params[i],
             IF Contains(arg, "=") THEN PartitionTail(arg, "=") ELSE None, st)
    ELSE IF Slice(arg, 1, 2) \notin {"-", "--"}
    THEN match_short_opt(params, arg, 2, st)
    ELSE [st EXCEPT !.err = TRUE]

process_opts(params, arg, st) ==
    process_opts_found(params, arg, st,
                       OptLookup(params, PartitionHead(arg, "="), FALSE))

\* OptionParser._process_args_for_options
RECURSIVE process_args_for_options(_, _, _)
process_arg(params, interspersed, st, arg, st1) ==
    IF arg = "--" THEN st1
    ELSE IF Slice(arg, 1, 1) = "-" /\ Len(arg) > 1
    THEN process_args_for_options(params, interspersed,
                                  process_opts(params, arg, st1))
    ELSE IF interspersed
    THEN process_args_for_options(params, interspersed,
             [st1 EXCEPT !.largs = Append(@, arg)])
    ELSE st

\* (s names the value of st, so that it is computed once.)
process_args_for_options(params, interspersed, st) ==
    CHOOSE r \in {IF s.rargs = <<>> \/ s.err THEN s
                  ELSE process_arg(params, interspersed, s, Head(s.rargs),
                                   [s EXCEPT !.rargs = Tail(@)]) : s \in {st}} : TRUE

\* parser._unpack_args: one entry per nargs of specs, each the values
\* fetched and the number of holes (None) left; rest is what no
\* argument took.  Specs after an unbounded one are served from the right.
RECURSIVE unpack_front(_, _)
unpack_front(args, specs) ==
    IF specs = <<>> \/ Head(specs) < 0
    THEN [pargs |-> <<>>, rest |-> args, specs |-> specs]
    ELSE LET n == Min(Head(specs), Len(args))
             r == unpack_front(SubSeq(args, n + 1, Len(args)), Tail(specs))
         IN [r EXCEPT !.pargs =
                <<[val |-> SubSeq(args, 1, n), holes |-> Head(specs) - n]>> \o @]

RECURSIVE unpack_back(_, _)
unpack_back(args, specs) ==
    IF specs = <<>> THEN [pargs |-> <<>>, rest |-> args]
    ELSE LET last == specs[Len(specs)]
             n == Min(last, Len(args))
             r == unpack_back(SubSeq(args, 1, Len(args) - n),
                              SubSeq(specs, 1, Len(specs) - 1))
         IN [r EXCEPT !.pargs = Append(@,
                [val |-> SubSeq(args, Len(args) - n + 1, Len(args)),
                 holes |-> last - n])]

unpack_wildcard(front, back) ==
    [pargs |-> front.pargs \o <<[val |-> back.rest, holes |-> 0]>> \o back.pargs,
     rest |-> <<>>]

unpack_rest(front) ==
    IF front.specs = <<>> THEN [pargs |-> front.pargs, rest |-> front.rest]
    ELSE unpack_wildcard(front, unpack_back(front.rest, Tail(front.specs)))

unpack_args(args, specs) == unpack_rest(unpack_front(args, specs))

\* The Argument parameters of a command, in declaration order.
ArgumentsOf(params) == SelectSeq(params, LAMBDA p : p.cls = "Argument")

\* parser.Argument.process for each argument in turn: a partly filled
\* nargs > 1 argument fails (BadArgumentUsage) and ends the parse.
RECURSIVE process_arguments(_, _, _, _)
process_arguments(arguments, pargs, i, st) ==
    IF i > Len(arguments) THEN st
    ELSE LET a == arguments[i]
             v == pargs[i]
         IN IF a.nargs > 1 /\ v.holes # 0 /\ v.holes # a.nargs
            THEN [st EXCEPT !.err = TRUE]
            ELSE process_arguments(arguments, pargs, i + 1,
                     [st EXCEPT !.opts[a.name] =
                         IF a.nargs > 0 /\ v.holes = a.nargs THEN NoValue
                         ELSE Value(v.val)])

\* OptionParser._process_args_for_args
store_arguments(st1, u) ==
    IF st1.err THEN st1 ELSE [st1 EXCEPT !.largs = u.rest, !.rargs = <<>>]

unpacked_arguments(arguments, st, u) ==
    store_arguments(process_arguments(arguments, u.pargs, 1, st), u)

arguments_for_args(arguments, st) ==
    unpacked_arguments(arguments, st,
        unpack_args(st.largs \o st.rargs,
                    [i \in 1..Len(arguments) |-> arguments[i].nargs]))

process_args_for_args(params, st) == arguments_for_args(ArgumentsOf(params), st)

\* OptionParser.parse_args: a usage error ends the parse and is swallowed.
ParsingState(arguments, args) ==
    [rargs |-> args, largs |-> <<>>, err |-> FALSE, pending |-> None,
     opts |-> [n \in {arguments[i].name : i \in 1..Len(arguments)} |-> NoValue]]

after_options(params, st1) ==
    CHOOSE r \in {IF s.err THEN s ELSE process_args_for_args(params, s) :
                     s \in {st1}} : TRUE

parser_parse_args(params, interspersed, args) ==
    after_options(params,
        process_args_for_options(params, interspersed,
                                 ParsingState(ArgumentsOf(params), args)))

\* Parameter.handle_parse_result for an argument: type conversion
\* (Choice rejects a value outside its choices), then the required check;
\* any failure leaves None.
handle_parse_result(param, value) ==
    IF value.none THEN NoValue
    ELSE IF IsChoice(param)
            /\ \E i \in 1..Len(value.val) : ~InSeq(value.val[i], param.choices)
    THEN NoValue
    ELSE IF param.required /\ param.nargs # 1 /\ value.val = <<>> THEN NoValue
    ELSE value

\* Command.parse_args: the parameter values and the leftover tokens.
parse_result(arguments, st) ==
    [params |-> [n \in DOMAIN st.opts |->
                    handle_parse_result(
                        arguments[CHOOSE i \in 1..Len(arguments) :
                                      arguments[i].name = n],
                        st.opts[n])],
     rest |-> st.largs,
     pending |-> st.pending]

command_parse_args(cmd, interspersed, args) ==
    CHOOSE r \in {parse_result(ArgumentsOf(get_params(cmd)), s) :
                     s \in {parser_parse_args(get_params(cmd), interspersed, args)}} : TRUE

\* Command.make_context / MultiCommand.parse_args: the context of cmd over
\* args.  A chained group keeps every leftover token in protected_args, a
\* plain group the first one; a leaf keeps them in args.
Context(cmd_id, cmd, parent, r) ==
    [command |-> cmd_id, parent |-> parent, params |-> r.params,
     pending |-> r.pending,
     protected_args |->
         IF ~IsMultiCommand(cmd) THEN <<>>
         ELSE IF cmd.chain THEN r.rest
         ELSE Slice(r.rest, 1, 1),
     args |->
         IF ~IsMultiCommand(cmd) THEN r.rest
         ELSE IF cmd.chain THEN <<>>
         ELSE Slice(r.rest, 2, Len(r.rest))]

make_context(cmd_id, args, parent, interspersed) ==
    CHOOSE c \in {Context(cmd_id, Commands[cmd_id], parent, r) :
                     r \in {command_parse_args(Commands[cmd_id], interspersed, args)}} : TRUE

\* Context.allow_interspersed_args as the command class sets it.
allow_interspersed_args(cmd_id) == ~IsMultiCommand(Commands[cmd_id])

\* MultiCommand.resolve_command in resilient mode: the child's id or None.
resolve_command(cmd_id, args) == get_command(Commands[cmd_id], args[1])

(***************************************************************************)
(* Classifier primitives (shell_completion.py 117-123, 325-371; the same   *)
(* functions stand in _bashcomplete.py 55-111)                             *)
(***************************************************************************)

\* start_of_option: non-empty and the first character is "-".
start_of_option(param_str) == param_str # "" /\ Slice(param_str, 1, 1) = "-"

\* reversed(list)
Reverse(seq) == [i \in 1..Len(seq) |-> seq[Len(seq) + 1 - i]]

\* The loop of is_incomplete_option over the reversed arguments: every
\* option-like word met before index + 1 exceeds nargs overwrites
\* last_option.
RECURSIVE scan_last_option(_, _, _, _)
scan_last_option(reversed_args, index, nargs, last_option) ==
    IF index + 1 > Len(reversed_args) THEN last_option
    ELSE IF index + 1 > nargs THEN last_option
    ELSE scan_last_option(reversed_args, index + 1, nargs,
             IF start_of_option(reversed_args[index + 1])
             THEN reversed_args[index + 1]
             ELSE last_option)

is_incomplete_option(cur_args, cmd_param) ==
    IF cmd_param.cls # "Option" THEN FALSE
    ELSE IF cmd_param.is_flag THEN FALSE
    ELSE LET last_option ==
                 scan_last_option(
                     Reverse(SelectSeq(cur_args, LAMBDA arg : arg # WORDBREAK)),
                     0, cmd_param.nargs, None)
         IN last_option # None /\ InSeq(last_option, cmd_param.opts)

\* is_incomplete_argument without the branch for nargs = -1: an unbounded
\* argument is closed by its first value.
is_incomplete_argument_bounded_only(current_params, cmd_param) ==
    IF cmd_param.cls # "Argument" THEN FALSE
    ELSE LET current_param_values == current_params[cmd_param.name]
         IN IF current_param_values.none THEN TRUE
            ELSE cmd_param.nargs > 1
                 /\ Len(current_param_values.val) < cmd_param.nargs

is_incomplete_argument(current_params, cmd_param) ==
    IF cmd_param.cls # "Argument" THEN FALSE
    ELSE LET current_param_values == current_params[cmd_param.name]
         IN IF current_param_values.none THEN TRUE
            ELSE IF cmd_param.nargs = -1 THEN TRUE
            ELSE IF cmd_param.nargs > 1
                    /\ Len(current_param_values.val) < cmd_param.nargs
            THEN TRUE
            ELSE FALSE

\* for param in ...get_params(ctx): if is_incomplete_option(all_args, param):
\* return ...: the index of the first such parameter, 0 when the loop falls
\* through.
first_incomplete_option(params, cur_args) ==
    IF \E i \in 1..Len(params) : is_incomplete_option(cur_args, params[i])
    THEN CHOOSE i \in 1..Len(params) :
             /\ is_incomplete_option(cur_args, params[i])
             /\ \A j \in 1..(i - 1) : ~is_incomplete_option(cur_args, params[j])
    ELSE 0

\* The same loop with is_incomplete_argument(ctx.params, param).
first_incomplete_argument(params, current_params) ==
    IF \E i \in 1..Len(params) : is_incomplete_argument(current_params, params[i])
    THEN CHOOSE i \in 1..Len(params) :
             /\ is_incomplete_argument(current_params, params[i])
             /\ \A j \in 1..(i - 1) :
                    ~is_incomplete_argument(current_params, params[j])
    ELSE 0

(***************************************************************************)
(* resolve_partial_value (shell_completion.py 374-405)                     *)
(***************************************************************************)

\* The word-break split of 387-392: the token list and the incomplete the
\* classification goes on with.
split_all_args(cur_args, inc) ==
    IF start_of_option(inc) /\ Contains(inc, WORDBREAK)
    THEN Append(cur_args, PartitionHead(inc, WORDBREAK))
    ELSE cur_args

\* A split that leaves a lone word break as the incomplete word.
split_incomplete_keeping_wordbreak(inc) ==
    IF start_of_option(inc) /\ Contains(inc, WORDBREAK)
    THEN PartitionTail(inc, WORDBREAK)
    ELSE inc

\* get_choices 194-199, resolve_partial_value 387-392: the incomplete word
\* after the split.
split_incomplete(inc) ==
    IF start_of_option(inc) /\ Contains(inc, WORDBREAK)
    THEN PartitionTail(inc, WORDBREAK)
    ELSE IF inc = WORDBREAK THEN ""
    ELSE inc

\* A resolve_partial_value that looks for an open option before it looks at
\* the incomplete word.
resolve_partial_value_values_first(context, cur_args, inc) ==
    LET has_double_dash == InSeq("--", cur_args)
        args1 == split_all_args(cur_args, inc)
        inc1 == split_incomplete(inc)
        params == get_params(Commands[context.command])
        option == first_incomplete_option(params, args1)
        argument == first_incomplete_argument(params, context.params)
    IN IF option # 0
       THEN [kind |-> "param", param |-> option, incomplete |-> inc1]
       ELSE IF ~has_double_dash /\ start_of_option(inc1)
       THEN [kind |-> "command", param |-> 0, incomplete |-> inc1]
       ELSE IF argument # 0
       THEN [kind |-> "param", param |-> argument, incomplete |-> inc1]
       ELSE [kind |-> "command", param |-> 0, incomplete |-> inc1]

\* The object that completes and the incomplete it completes; has_double_dash
\* is taken from the token list before the split appends to it.
resolve_partial_value(context, cur_args, inc) ==
    LET has_double_dash == InSeq("--", cur_args)
        args1 == split_all_args(cur_args, inc)
        inc1 == split_incomplete(inc)
        params == get_params(Commands[context.command])
        option == first_incomplete_option(params, args1)
        argument == first_incomplete_argument(params, context.params)
    IN IF ~has_double_dash /\ start_of_option(inc1)
       THEN [kind |-> "command", param |-> 0, incomplete |-> inc1]
       ELSE IF option # 0
       THEN [kind |-> "param", param |-> option, incomplete |-> inc1]
       ELSE IF argument # 0
       THEN [kind |-> "param", param |-> argument, incomplete |-> inc1]
       ELSE [kind |-> "command", param |-> 0, incomplete |-> inc1]

(***************************************************************************)
(* Candidate generation (_bashcomplete.py 114-226)                         *)
(***************************************************************************)

COLORS == <<"red", "green", "blue">>

\* The autocompletion callbacks of the model's parameters, as the items
\* they yield: bare values (tuple = FALSE) or (value, help) tuples.
Bare(v) == [tuple |-> FALSE, value |-> v, help |-> None]

Described(v, h) == [tuple |-> TRUE, value |-> v, help |-> h]

autocompletion(callback, inc) ==
    CASE callback = "get_colors" ->
           SelectSeq([i \in 1..Len(COLORS) |-> Bare(COLORS[i])],
                     LAMBDA c : StartsWith(c.value, inc))
      [] callback = "search_colors" ->
           SelectSeq([i \in 1..Len(COLORS) |-> Bare(COLORS[i])],
                     LAMBDA c : HasSubstring(c.value, inc))
      [] callback = "_complete" ->
           SelectSeq(<<Bare("name"), Bare("-o"), Bare("--opt"), Bare("--")>>,
                     LAMBDA c : StartsWith(c.value, inc))
      [] callback = "describe_colors" ->
           <<Described("red", "warm"), Bare("green"), Described("blue", None)>>

\* Value candidates that ask the callback before looking at the choices.
get_user_autocompletions_callback_first(cur_args, inc, cmd_param) ==
    IF cmd_param.autocompletion # None
    THEN LET dynamic_completions == autocompletion(cmd_param.autocompletion, inc)
         IN [i \in 1..Len(dynamic_completions) |->
                IF dynamic_completions[i].tuple
                THEN <<dynamic_completions[i].value, dynamic_completions[i].help>>
                ELSE <<dynamic_completions[i].value, None>>]
    ELSE IF IsChoice(cmd_param)
    THEN LET matching == SelectSeq(cmd_param.choices,
                                   LAMBDA c : StartsWith(c, inc))
         IN [i \in 1..Len(matching) |-> <<matching[i], None>>]
    ELSE <<>>

\* get_user_autocompletions (114-135): (value, help) pairs.
get_user_autocompletions(cur_args, inc, cmd_param) ==
    IF IsChoice(cmd_param)
    THEN LET matching == SelectSeq(cmd_param.choices,
                                   LAMBDA c : StartsWith(c, inc))
         IN [i \in 1..Len(matching) |-> <<matching[i], None>>]
    ELSE IF cmd_param.autocompletion # None
    THEN LET dynamic_completions == autocompletion(cmd_param.autocompletion, inc)
         IN [i \in 1..Len(dynamic_completions) |->
                IF dynamic_completions[i].tuple
                THEN <<dynamic_completions[i].value, dynamic_completions[i].help>>
                ELSE <<dynamic_completions[i].value, None>>]
    ELSE <<>>

\* get_visible_commands_starting_with (138-148): ids of the children, in
\* list_commands order, whose name starts with starts_with and which are
\* not hidden.
get_visible_commands_starting_with(context, starts_with) ==
    LET cmd == Commands[context.command]
    IN SelectSeq(cmd.commands,
                 LAMBDA c : /\ StartsWith(Commands[c].name, starts_with)
                            /\ ~Commands[get_command(cmd, Commands[c].name)].hidden)

\* (c.name, c.get_short_help_str()) for each command id.
NameAndHelp(ids) ==
    [i \in 1..Len(ids) |-> <<Commands[ids[i]].name, Commands[ids[i]].short_help>>]

\* A walk up the parents that adds the children of every container above,
\* chained or not.
RECURSIVE chained_parent_completions_any_parent(_, _, _)
chained_parent_completions_any_parent(contexts, i, inc) ==
    IF contexts[i].parent = 0 THEN <<>>
    ELSE LET parent == contexts[contexts[i].parent]
             cmd == Commands[parent.command]
             remaining_commands ==
                 SelectSeq(get_visible_commands_starting_with(parent, inc),
                           LAMBDA c : ~InSeq(Commands[c].name, parent.protected_args))
         IN (IF IsMultiCommand(cmd)
             THEN NameAndHelp(remaining_commands) ELSE <<>>)
            \o chained_parent_completions_any_parent(contexts, contexts[i].parent, inc)

\* add_subcommand_completions 161-173: the walk up the parents of the
\* context at index i.
RECURSIVE chained_parent_completions(_, _, _)
chained_parent_completions(contexts, i, inc) ==
    IF contexts[i].parent = 0 THEN <<>>
    ELSE LET parent == contexts[contexts[i].parent]
             cmd == Commands[parent.command]
             remaining_commands ==
                 SelectSeq(get_visible_commands_starting_with(parent, inc),
                           LAMBDA c : ~InSeq(Commands[c].name, parent.protected_args))
         IN (IF IsMultiCommand(cmd) /\ cmd.chain
             THEN NameAndHelp(remaining_commands) ELSE <<>>)
            \o chained_parent_completions(contexts, contexts[i].parent, inc)

\* A walk up the parents that starts at the context itself, so that a
\* chained container's children are added a second time.
add_subcommand_completions_walking_from_self(contexts, i, inc) ==
    (IF IsMultiCommand(Commands[contexts[i].command])
     THEN NameAndHelp(get_visible_commands_starting_with(contexts[i], inc))
     ELSE <<>>)
    \o (IF IsMultiCommand(Commands[contexts[i].command])
           /\ Commands[contexts[i].command].chain
        THEN NameAndHelp(SelectSeq(
                 get_visible_commands_starting_with(contexts[i], inc),
                 LAMBDA c : ~InSeq(Commands[c].name, contexts[i].protected_args)))
        ELSE <<>>)
    \o chained_parent_completions(contexts, i, inc)

\* add_subcommand_completions (151-173): what it appends to completions_out.
add_subcommand_completions(contexts, i, inc) ==
    (IF IsMultiCommand(Commands[contexts[i].command])
     THEN NameAndHelp(get_visible_commands_starting_with(contexts[i], inc))
     ELSE <<>>)
    \o chained_parent_completions(contexts, i, inc)

\* Python's tuple order on (value, help) pairs of strings.
PairLess(a, b) == IF a[1] # b[1] THEN StrLess(a[1], b[1]) ELSE StrLess(a[2], b[2])

\* sorted(): a stable insertion sort.
RECURSIVE InsertSorted(_, _)
InsertSorted(x, sortedSeq) ==
    IF sortedSeq = <<>> THEN <<x>>
    ELSE IF PairLess(x, Head(sortedSeq)) THEN <<x>> \o sortedSeq
    ELSE <<Head(sortedSeq)>> \o InsertSorted(x, Tail(sortedSeq))

RECURSIVE sorted(_)
sorted(seq) ==
    IF seq = <<>> THEN <<>>
    ELSE InsertSorted(seq[Len(seq)], sorted(SubSeq(seq, 1, Len(seq) - 1)))

\* Option names that leave out every spelling already typed, repeatable or
\* not.
option_name_completions_once_only(context, cur_args, inc) ==
    LET params == get_params(Commands[context.command])
        param_opts(param) ==
            SelectSeq(param.opts \o param.secondary_opts,
                      LAMBDA o : ~InSeq(o, cur_args))
        completions(param) ==
            LET matching == SelectSeq(param_opts(param),
                                      LAMBDA o : StartsWith(o, inc))
            IN [i \in 1..Len(matching) |-> <<matching[i], param.help>>]
    IN Flatten([i \in 1..Len(params) |->
                   IF params[i].cls = "Option" /\ ~params[i].hidden
                   THEN completions(params[i]) ELSE <<>>])

\* get_choices 202-214: the option names of the active command.
option_name_completions(context, cur_args, inc) ==
    LET params == get_params(Commands[context.command])
        param_opts(param) ==
            SelectSeq(param.opts \o param.secondary_opts,
                      LAMBDA o : ~InSeq(o, cur_args) \/ param.multiple)
        completions(param) ==
            LET matching == SelectSeq(param_opts(param),
                                      LAMBDA o : StartsWith(o, inc))
            IN [i \in 1..Len(matching) |-> <<matching[i], param.help>>]
    IN Flatten([i \in 1..Len(params) |->
                   IF params[i].cls = "Option" /\ ~params[i].hidden
                   THEN completions(params[i]) ELSE <<>>])

\* A get_choices that offers option names after "--" as well.
get_choices_ignoring_double_dash(contexts, i, cur_args, inc) ==
    LET context == contexts[i]
        args1 == split_all_args(cur_args, inc)
        inc1 == split_incomplete(inc)
        params == get_params(Commands[context.command])
        option == first_incomplete_option(params, args1)
        argument == first_incomplete_argument(params, context.params)
    IN IF start_of_option(inc1)
       THEN option_name_completions(context, args1, inc1)
       ELSE IF option # 0
       THEN get_user_autocompletions(args1, inc1, params[option])
       ELSE IF argument # 0
       THEN get_user_autocompletions(args1, inc1, params[argument])
       ELSE sorted(add_subcommand_completions(contexts, i, inc1))

\* get_choices 190-226 once the context is resolved: contexts[i] is the
\* resolved context, cur_args the copy of the caller's tokens.
get_choices(contexts, i, cur_args, inc) ==
    LET context == contexts[i]
        has_double_dash == InSeq("--", cur_args)
        args1 == split_all_args(cur_args, inc)
        inc1 == split_incomplete(inc)
        params == get_params(Commands[context.command])
        option == first_incomplete_option(params, args1)
        argument == first_incomplete_argument(params, context.params)
    IN IF ~has_double_dash /\ start_of_option(inc1)
       THEN option_name_completions(context, args1, inc1)
       ELSE IF option # 0
       THEN get_user_autocompletions(args1, inc1, params[option])
       ELSE IF argument # 0
       THEN get_user_autocompletions(args1, inc1, params[argument])
       ELSE sorted(add_subcommand_completions(contexts, i, inc1))

(***************************************************************************)
(* State of one completion request                                         *)
(***************************************************************************)

VARIABLES
    cli,            \* id of the root command the request names
    args,           \* the tokens the call was given, as they were on entry
    incomplete,     \* the incomplete word the call was given
    entry,          \* "do_complete" or "get_choices"
    pc,             \* position in the call chain
    ctxs,           \* the contexts created so far, in creation order
    ctx,            \* resolve_ctx's ctx: an index into ctxs, 0 before the first
    sub_ctx,        \* resolve_ctx's sub_ctx, 0 while unset
    rargs,          \* resolve_ctx's local args
    all_args,       \* the deep copy of args the classification reads
    partial_value,  \* what resolve_partial_value returned
    result,         \* the candidates returned
    first,          \* the request answered before this one, if any
    available_shells,  \* the adapter registry: shell name -> class
    registration,   \* the last add_completion_class call and how it ended
    registrations,  \* how many add_completion_class calls were made
    line,           \* the command line in the shell: family, words, cursor
    complete_instr, \* the instruction the activation variable holds
    COMP_WORDS,     \* os.environ["COMP_WORDS"]
    COMP_CWORD,     \* os.environ["COMP_CWORD"]
    spc,            \* position in shell_complete
    command,        \* shell_complete's command
    shell,          \* shell_complete's shell
    completion_class,  \* the class shell_complete instantiated
    engine_args,    \* the args an adapter passed to do_complete
    engine_incomplete, \* the incomplete it passed
    completions,    \* what do_complete returned to the adapter
    output,         \* the lines echoed
    returned,       \* what shell_complete returned: "True", "False"
    raised          \* the exception that left shell_complete

engine_vars == <<cli, args, incomplete, entry, pc, ctxs, ctx, sub_ctx, rargs,
                 all_args, partial_value, result, first>>

shell_vars == <<available_shells, registration, registrations, line,
                complete_instr, COMP_WORDS, COMP_CWORD, spc, command, shell,
                completion_class, engine_args, engine_incomplete, completions,
                output, returned, raised>>

vars == <<engine_vars, shell_vars>>

\* Token lists of at most n words over a vocabulary.
RECURSIVE TokenLists(_, _)
TokenLists(words, n) ==
    IF n = 0 THEN {<<>>}
    ELSE LET shorter == TokenLists(words, n - 1)
         IN shorter \cup {Append(t, w) : t \in shorter, w \in words}

NoTarget == [kind |-> None, param |-> 0, incomplete |-> ""]

NoRequest == [kind |-> None, args |-> <<>>, incomplete |-> None,
              partial_value |-> NoTarget, result |-> <<>>, ctxs |-> <<>>, ctx |-> 0]

(***************************************************************************)
(* The shell layer (shell_completion.py 17-113, 126-242, 275-322,          *)
(* 451-465): activation scripts, adapters, registry and dispatcher         *)
(***************************************************************************)

\* The program name and activation variable of test_compat.py.
prog_name == "foo-bar"

complete_var == "_COMPLETE_VAR"

\* The classes offered to add_completion_class and their __base__: the
\* four of the module, a direct subclass of ShellComplete that overrides
\* nothing, a subclass of BashComplete, and a class outside the hierarchy.
ClassBase ==
    [c \in {"ShellComplete", "BashComplete", "ZshComplete", "FishComplete",
            "PowerShellComplete", "Bash5Complete", "NotAnAdapter"} |->
        CASE c = "ShellComplete" -> "object"
          [] c = "BashComplete" -> "ShellComplete"
          [] c = "ZshComplete" -> "ShellComplete"
          [] c = "FishComplete" -> "ShellComplete"
          [] c = "PowerShellComplete" -> "ShellComplete"
          [] c = "Bash5Complete" -> "BashComplete"
          [] c = "NotAnAdapter" -> "object"]

\* The class whose source and complete an instance of cls runs: the nearest
\* of the module's four classes on the way up from cls.
RECURSIVE MethodOwner(_)
MethodOwner(cls) ==
    IF cls \in {"ShellComplete", "BashComplete", "ZshComplete", "FishComplete"}
    THEN cls
    ELSE MethodOwner(ClassBase[cls])

\* The names classes are registered under.
ShellNames == {"bash", "fish", "pwsh"}

\* available_shells as the module defines it.
BuiltinShells ==
    [name \in {"bash", "fish", "zsh"} |->
        CASE name = "bash" -> "BashComplete"
          [] name = "fish" -> "FishComplete"
          [] name = "zsh" -> "ZshComplete"]

\* get_completion_source with the bash adapter as the default.
get_completion_source_defaulting_to_bash(shells, name) ==
    IF name \in DOMAIN shells THEN shells[name] ELSE "BashComplete"

\* get_completion_source
get_completion_source(shells, name) ==
    IF name \in DOMAIN shells THEN shells[name] ELSE "ShellComplete"

\* The values of the activation variable.
Instructions ==
    {"source", "source_bash", "source_zsh", "source_fish", "source_tcsh",
     "source_my_sh", "complete", "complete_zsh", "complete_fish",
     "complete_pwsh", "complete_my_sh", "install", "completed_zsh", "_zsh"}

\* str.split("_", 1) of an instruction that holds an underscore, and the
\* defaults for one that does not.
\* instr_command that splits at the last underscore, as rsplit would.
instr_command_rsplit(instr) ==
    IF Contains(instr, "_")
    THEN SubSeq(instr, 1,
                (CHOOSE k \in 1..Len(instr) :
                     /\ SubSeq(instr, k, k) = "_"
                     /\ \A j \in (k + 1)..Len(instr) : SubSeq(instr, j, j) # "_") - 1)
    ELSE instr

instr_command(instr) ==
    IF Contains(instr, "_") THEN SubSeq(instr, 1, Find(instr, "_") - 1)
    ELSE instr

instr_shell(instr) ==
    IF Contains(instr, "_") THEN SubSeq(instr, Find(instr, "_") + 1, Len(instr))
    ELSE "bash"

\* The words a line is made of, and the lines: the program name, up to
\* MaxWords words, the position of the word under the cursor counted from
\* 0, and the number of that word's characters left of the cursor.  The
\* cursor stands inside a word or at its end, or, when its position equals
\* the number of words, after a blank on a new and empty word.
LineWords == {"a", "bb"}

Lines ==
    {[family |-> f, words |-> <<prog_name>> \o w, cursor |-> c, within |-> n] :
        f \in {"bash", "zsh", "fish"},
        w \in TokenLists(LineWords, MaxWords),
        c \in 1..(MaxWords + 1),
        n \in {0} \cup UNION {1..Len(word) : word \in LineWords}}

\* The cursor of line l stands on a word of the line or on a new one.
CursorOnLine(l) ==
    /\ l.cursor <= Len(l.words)
    /\ IF l.cursor = Len(l.words) THEN l.within = 0
       ELSE l.within \in 1..Len(l.words[l.cursor + 1])

NoLine == [family |-> None, words |-> <<>>, cursor |-> 0, within |-> 0]

\* What COMP_WORDS and COMP_CWORD are set to when the program is started
\* by hand; None when the variable is left unset.
HandEnvironments ==
    {<<None, None>>, <<None, "1">>, <<prog_name \o " a", None>>,
     <<prog_name, "1">>, <<prog_name \o " a bb", "-1">>,
     <<prog_name \o " a bb", "+1">>, <<prog_name \o " a bb", " 2">>,
     <<prog_name \o " a bb", "1_0">>, <<prog_name \o " a bb", "x">>}

\* The words joined by a separator.
RECURSIVE Join(_, _)
Join(words, sep) ==
    IF words = <<>> THEN ""
    ELSE IF Len(words) = 1 THEN words[1]
    ELSE words[1] \o sep \o Join(Tail(words), sep)

\* The shell's own word array for a line: an empty word stands at the
\* cursor when a new word is begun.
WordArray(l) ==
    IF l.cursor = Len(l.words) THEN Append(l.words, "") ELSE l.words

\* COMP_WORDS as each activation script sets it: bash joins its array with
\* the first character of IFS, a newline (19, 22); zsh joins with a blank
\* (62); fish passes the line cut at the cursor (93, commandline -cp).
EnvWords(l) ==
    CASE l.family = "bash" -> Join(WordArray(l), "\n")
      [] l.family = "zsh" -> Join(WordArray(l), " ")
      [] l.family = "fish" ->
             Join(Append(SubSeq(l.words, 1, l.cursor),
                         SubSeq(WordArray(l)[l.cursor + 1], 1, l.within)), " ")

\* COMP_CWORD: the index of the word under the cursor for bash (23) and
\* zsh (63, CURRENT - 1), the whole word under the cursor for fish (93,
\* commandline -t).
EnvCword(l) ==
    IF l.family = "fish" THEN WordArray(l)[l.cursor + 1]
    ELSE ToString(l.cursor)

\* The instruction each activation script sets (24, 64, 92).
EnvInstruction(l) ==
    CASE l.family = "bash" -> "complete"
      [] l.family = "zsh" -> "complete_zsh"
      [] l.family = "fish" -> "complete_fish"

\* parser.split_arg_string on unquoted words: the pieces between runs of
\* white space.
IsSpace(c) == c \in {" ", "\n", "\t"}

RECURSIVE split_from(_, _, _, _)
split_from(str, i, word, out) ==
    IF i > Len(str)
    THEN IF word = "" THEN out ELSE Append(out, word)
    ELSE IF IsSpace(SubSeq(str, i, i))
    THEN split_from(str, i + 1, "", IF word = "" THEN out ELSE Append(out, word))
    ELSE split_from(str, i + 1, word \o SubSeq(str, i, i), out)

split_arg_string(str) == split_from(str, 1, "", <<>>)

\* Python's int() of a string, 179 and 199: white space around the number
\* is stripped, one sign may lead, and the digits may be grouped by single
\* underscores; anything else is a ValueError.  (Strings here are over the
\* characters up to code 127; int() also takes the digits and the white
\* space of other scripts.)
Digits == "0123456789"

IsDigit(c) == \E d \in 1..Len(Digits) : SubSeq(Digits, d, d) = c

DigitValue(c) == (CHOOSE d \in 1..Len(Digits) : SubSeq(Digits, d, d) = c) - 1

\* The white space int() drops on both sides, character by character:
\* blank, tab, line feed, vertical tab, form feed, carriage return.  Next
\* line (code 133) and no-break space (code 160) are dropped too; they are
\* outside the characters up to code 127 and count here only where this
\* text is read so that each of them is one character.
Whitespace ==
    {" ", "\t", "\n", "", "\f", "\r"} \cup {w \in {"", " "} : Len(w) = 1}

IsWhitespace(c) == c \in Whitespace

RECURSIVE lstrip(_)
lstrip(str) ==
    IF str # "" /\ IsWhitespace(SubSeq(str, 1, 1))
    THEN lstrip(SubSeq(str, 2, Len(str)))
    ELSE str

RECURSIVE rstrip(_)
rstrip(str) ==
    IF str # "" /\ IsWhitespace(SubSeq(str, Len(str), Len(str)))
    THEN rstrip(SubSeq(str, 1, Len(str) - 1))
    ELSE str

strip(str) == rstrip(lstrip(str))

\* The sign a number begins with, if any, and what follows it.
HasSign(str) == str # "" /\ SubSeq(str, 1, 1) \in {"+", "-"}

Unsigned(str) == IF HasSign(str) THEN SubSeq(str, 2, Len(str)) ELSE str

\* Decimal digits, with single underscores between digits only.
IsDecimal(str) ==
    /\ str # ""
    /\ \A i \in 1..Len(str) :
           \/ IsDigit(SubSeq(str, i, i))
           \/ /\ SubSeq(str, i, i) = "_"
              /\ 1 < i /\ i < Len(str)
              /\ IsDigit(SubSeq(str, i - 1, i - 1))
              /\ IsDigit(SubSeq(str, i + 1, i + 1))

RECURSIVE int_from(_, _, _)
int_from(str, i, acc) ==
    IF i > Len(str) THEN acc
    ELSE IF SubSeq(str, i, i) = "_" THEN int_from(str, i + 1, acc)
    ELSE int_from(str, i + 1, 10 * acc + DigitValue(SubSeq(str, i, i)))

\* The outcome of int(str): the value, or the exception raised.
int(str) ==
    LET number == strip(str)
    IN IF IsDecimal(Unsigned(number))
       THEN [raised |-> None,
             value |-> IF HasSign(number) /\ SubSeq(number, 1, 1) = "-"
                       THEN 0 - int_from(Unsigned(number), 1, 0)
                       ELSE int_from(Unsigned(number), 1, 0)]
       ELSE [raised |-> "ValueError", value |-> 0]

\* Python's cwords[1:cword], 180 and 200: a negative cword counts from the
\* end, and both ends are clipped to the list.
args_before(cwords, cword) ==
    LET stop == IF cword < 0 THEN cword + Len(cwords) ELSE Min(cword, Len(cwords))
    IN IF stop < 2 THEN <<>> ELSE SubSeq(cwords, 2, stop)

\* Python's cwords[cword] with the IndexError caught, 181-184 and 201-204: a
\* negative cword counts from the end; outside the list the empty string.
word_at(cwords, cword) ==
    LET index == IF cword < 0 THEN cword + Len(cwords) ELSE cword
    IN IF index >= 0 /\ index < Len(cwords) THEN cwords[index + 1] ELSE ""

\* What do_complete may return to an adapter: lists of (type, value, help)
\* records whose help is None, empty or a text.
CandidateLists ==
    {<<>>,
     <<<<"none", "a", None>>>>,
     <<<<"none", "bb", "help b">>, <<"none", "a", "">>>>,
     <<<<"none", "a", "">>, <<"none", "bb", "help b">>>>,
     <<<<"file", "c", None>>, <<"none", "bb", "help b">>, <<"none", "a", None>>>>}

\* Python's truth value of a help string.
Truthy(str) == str # None /\ str # ""

\* The lines each adapter echoes for its candidates.
bash_lines(items) == [n \in 1..Len(items) |-> items[n][1] \o "," \o items[n][2]]

\* zsh_lines with the sentinel for a help of None only: an empty help is
\* echoed as an empty line.
zsh_lines_sentinel_for_none_only(items) ==
    [n \in 1..(2 * Len(items)) |->
        IF n % 2 = 1 THEN items[(n + 1) \div 2][2]
        ELSE IF items[n \div 2][3] # None THEN items[n \div 2][3] ELSE "_"]

zsh_lines(items) ==
    [n \in 1..(2 * Len(items)) |->
        IF n % 2 = 1 THEN items[(n + 1) \div 2][2]
        ELSE IF Truthy(items[n \div 2][3]) THEN items[n \div 2][3] ELSE "_"]

fish_lines(items) ==
    [n \in 1..Len(items) |->
        IF Truthy(items[n][3])
        THEN items[n][1] \o "," \o items[n][2] \o "\t" \o items[n][3]
        ELSE items[n][1] \o "," \o items[n][2]]

\* _invalid_ident_char_re.sub("", prog_name.replace("-", "_"))
RECURSIVE cf_name_from(_, _)
cf_name_from(str, i) ==
    IF i > Len(str) THEN ""
    ELSE LET c == SubSeq(str, i, i)
             d == IF c = "-" THEN "_" ELSE c
         IN (IF IsAlnum(d) \/ d = "_" THEN d ELSE "") \o cf_name_from(str, i + 1)

cf_name(name) == cf_name_from(name, 1)

\* The script each class's source() returns, None where it raises.
source_template(cls) ==
    CASE MethodOwner(cls) = "BashComplete" -> "COMPLETION_SCRIPT_BASH"
      [] MethodOwner(cls) = "ZshComplete" -> "COMPLETION_SCRIPT_ZSH"
      [] MethodOwner(cls) = "FishComplete" -> "COMPLETION_SCRIPT_FISH"
      [] OTHER -> None

\* get_completion_script 289-296: the template with its three variables
\* filled in, written as the template's name and the values, and the
\* closing ";".
get_completion_script(template) ==
    template \o " % complete_func=_" \o cf_name(prog_name) \o "_completion"
             \o " script_names=" \o prog_name
             \o " autocomplete_var=" \o complete_var \o ";"

NoRegistration == [name |-> None, completion_class |-> None, raised |-> None]

\* The shell layer before any call, and while only the engine is looked at.
ShellIdle ==
    /\ available_shells = BuiltinShells
    /\ registration = NoRegistration
    /\ registrations = 0
    /\ line = NoLine
    /\ complete_instr = None
    /\ COMP_WORDS = None
    /\ COMP_CWORD = None
    /\ command = None
    /\ shell = None
    /\ completion_class = None
    /\ engine_args = <<>>
    /\ engine_incomplete = None
    /\ completions = <<>>
    /\ output = <<>>
    /\ returned = None
    /\ raised = None

ShellOff == ShellIdle /\ spc = "off"

\* The engine while only the shell layer is looked at.
EngineOff ==
    /\ cli = "opts"
    /\ args = <<>>
    /\ incomplete = ""
    /\ entry = "do_complete"
    /\ pc = "off"
    /\ ctxs = <<>>
    /\ ctx = 0
    /\ sub_ctx = 0
    /\ rargs = <<>>
    /\ all_args = <<>>
    /\ partial_value = NoTarget
    /\ result = <<>>
    /\ first = NoRequest

\* The module is imported: the registry holds the three built-in adapters.
ShellInit == EngineOff /\ ShellIdle /\ spc = "idle"

\* add_completion_class that keeps the class a name is already bound to.
AddCompletionClass_keeping_first_binding ==
    /\ spc = "idle"
    /\ registrations < MaxRegistrations
    /\ \E name \in ShellNames, cls \in DOMAIN ClassBase \ {"ZshComplete"} :
           IF ClassBase[cls] # "ShellComplete"
           THEN /\ registration' = [name |-> name, completion_class |-> cls,
                                    raised |-> "Exception"]
                /\ UNCHANGED available_shells
           ELSE /\ registration' = [name |-> name, completion_class |-> cls,
                                    raised |-> None]
                /\ available_shells' =
                       [n \in DOMAIN available_shells \cup {name} |->
                           IF n \in DOMAIN available_shells
                           THEN available_shells[n] ELSE cls]
    /\ registrations' = registrations + 1
    /\ UNCHANGED <<line, complete_instr, COMP_WORDS, COMP_CWORD, spc, command,
                   shell, completion_class, engine_args, engine_incomplete,
                   completions, output, returned, raised>>
    /\ UNCHANGED engine_vars

\* add_completion_class(name, completion_class), 299-313.
AddCompletionClass ==
    /\ spc = "idle"
    /\ registrations < MaxRegistrations
    /\ \E name \in ShellNames, cls \in DOMAIN ClassBase \ {"ZshComplete"} :
           IF ClassBase[cls] # "ShellComplete"
           THEN /\ registration' = [name |-> name, completion_class |-> cls,
                                    raised |-> "Exception"]
                /\ UNCHANGED available_shells
           ELSE /\ registration' = [name |-> name, completion_class |-> cls,
                                    raised |-> None]
                /\ available_shells' =
                       [n \in DOMAIN available_shells \cup {name} |->
                           IF n = name THEN cls ELSE available_shells[n]]
    /\ registrations' = registrations + 1
    /\ UNCHANGED <<line, complete_instr, COMP_WORDS, COMP_CWORD, spc, command,
                   shell, completion_class, engine_args, engine_incomplete,
                   completions, output, returned, raised>>
    /\ UNCHANGED engine_vars

\* The program is started with the activation variable set: by a shell's
\* completion function for the line being edited (22-24, 62-65, 92-94),
\* or by hand with any instruction, word list and cursor.
Activate ==
    /\ spc = "idle"
    /\ \/ \E l \in Lines :
              /\ CursorOnLine(l)
              /\ line' = l
              /\ complete_instr' = EnvInstruction(l)
              /\ COMP_WORDS' = EnvWords(l)
              /\ COMP_CWORD' = EnvCword(l)
       \/ \E instr \in Instructions, env \in HandEnvironments :
              /\ line' = NoLine
              /\ complete_instr' = instr
              /\ COMP_WORDS' = env[1]
              /\ COMP_CWORD' = env[2]
    /\ spc' = "called"
    /\ UNCHANGED <<available_shells, registration, registrations, command, shell,
                   completion_class, engine_args, engine_incomplete,
                   completions, output, returned, raised>>
    /\ UNCHANGED engine_vars

\* shell_complete 452-465: split the instruction and branch on the command.
DispatchInstruction ==
    /\ spc = "called"
    /\ command' = instr_command(complete_instr)
    /\ shell' = instr_shell(complete_instr)
    /\ IF command' = "source" THEN spc' = "source" /\ UNCHANGED returned
       ELSE IF command' = "complete" THEN spc' = "complete" /\ UNCHANGED returned
       ELSE spc' = "returned" /\ returned' = "False"
    /\ UNCHANGED <<available_shells, registration, registrations, line,
                   complete_instr, COMP_WORDS, COMP_CWORD, completion_class,
                   engine_args, engine_incomplete, completions, output, raised>>
    /\ UNCHANGED engine_vars

\* How a call of bash_version_not_usable, 245-253, may end: with True, with
\* False or None (no version in the output), in the error of run() at 247
\* when there is no bash to run, when it may not be run or when the system
\* cannot start it (OSError stands for every other error of the operating
\* system), or in the error of decode() at 248 when the output is not
\* UTF-8.
BashVersionChecks ==
    {"True", "False", "FileNotFoundError", "PermissionError", "OSError",
     "UnicodeDecodeError"}

\* shell_complete 458-460 with get_completion_script 275-296: the class
\* registered for the shell is instantiated and its source() formatted and
\* echoed.  ShellComplete.source raises (155); BashComplete.source raises
\* when bash is older than 4.4 (171-174), which bash_version_not_usable
\* finds out by running bash (247): with no bash to run, that call raises
\* FileNotFoundError, which nothing catches.
EmitScript ==
    /\ spc = "source"
    /\ completion_class' = get_completion_source(available_shells, shell)
    /\ \E bash_version_not_usable \in BashVersionChecks :
           IF source_template(completion_class') = None
           THEN /\ raised' = "NotImplementedError"
                /\ spc' = "raised"
                /\ UNCHANGED <<output, returned>>
           ELSE IF MethodOwner(completion_class') = "BashComplete"
                   /\ bash_version_not_usable # "False"
           THEN /\ raised' = IF bash_version_not_usable = "True"
                              THEN "Exception"
                              ELSE bash_version_not_usable
                /\ spc' = "raised"
                /\ UNCHANGED <<output, returned>>
           ELSE /\ output' = <<get_completion_script(
                                   source_template(completion_class'))>>
                /\ returned' = "True"
                /\ spc' = "returned"
                /\ UNCHANGED raised
    /\ UNCHANGED <<available_shells, registration, registrations, line,
                   complete_instr, COMP_WORDS, COMP_CWORD, command, shell,
                   engine_args, engine_incomplete, completions>>
    /\ UNCHANGED engine_vars

\* shell_complete 461-463 when the registered class runs
\* BashComplete.complete, 177-190.  Reading a variable that is not set
\* raises KeyError (178, 179).
BashCompleteComplete ==
    /\ spc = "complete"
    /\ MethodOwner(get_completion_source(available_shells, shell)) = "BashComplete"
    /\ completion_class' = get_completion_source(available_shells, shell)
    /\ LET cwords == split_arg_string(COMP_WORDS)
           cword == int(COMP_CWORD)
       IN IF COMP_WORDS = None \/ COMP_CWORD = None
          THEN /\ raised' = "KeyError"
               /\ spc' = "raised"
               /\ UNCHANGED <<engine_args, engine_incomplete, completions,
                              output, returned>>
          ELSE IF cword.raised # None
          THEN /\ raised' = cword.raised
               /\ spc' = "raised"
               /\ UNCHANGED <<engine_args, engine_incomplete, completions,
                              output, returned>>
          ELSE /\ engine_args' = args_before(cwords, cword.value)
               /\ engine_incomplete' = word_at(cwords, cword.value)
               /\ \E items \in CandidateLists :
                      /\ completions' = items
                      /\ output' = bash_lines(items)
               /\ returned' = "True"
               /\ spc' = "returned"
               /\ UNCHANGED raised
    /\ UNCHANGED <<available_shells, registration, registrations, line,
                   complete_instr, COMP_WORDS, COMP_CWORD, command, shell>>
    /\ UNCHANGED engine_vars

\* ZshComplete.complete, 197-211.
ZshCompleteComplete ==
    /\ spc = "complete"
    /\ MethodOwner(get_completion_source(available_shells, shell)) = "ZshComplete"
    /\ completion_class' = get_completion_source(available_shells, shell)
    /\ LET cwords == split_arg_string(COMP_WORDS)
           cword == int(COMP_CWORD)
       IN IF COMP_WORDS = None \/ COMP_CWORD = None
          THEN /\ raised' = "KeyError"
               /\ spc' = "raised"
               /\ UNCHANGED <<engine_args, engine_incomplete, completions,
                              output, returned>>
          ELSE IF cword.raised # None
          THEN /\ raised' = cword.raised
               /\ spc' = "raised"
               /\ UNCHANGED <<engine_args, engine_incomplete, completions,
                              output, returned>>
          ELSE /\ engine_args' = args_before(cwords, cword.value)
               /\ engine_incomplete' = word_at(cwords, cword.value)
               /\ \E items \in CandidateLists :
                      /\ completions' = items
                      /\ output' = zsh_lines(items)
               /\ returned' = "True"
               /\ spc' = "returned"
               /\ UNCHANGED raised
    /\ UNCHANGED <<available_shells, registration, registrations, line,
                   complete_instr, COMP_WORDS, COMP_CWORD, command, shell>>
    /\ UNCHANGED engine_vars

\* The args FishComplete.complete passes on, 219-226: every word after the
\* program name, less the last one when it equals a non-empty incomplete.
fish_args(cwords, inc) ==
    LET rest == SubSeq(cwords, 2, Len(cwords))
    IN IF inc # "" /\ rest # <<>> /\ rest[Len(rest)] = inc
       THEN SubSeq(rest, 1, Len(rest) - 1)
       ELSE rest

\* FishComplete.complete, 218-235.
FishCompleteComplete ==
    /\ spc = "complete"
    /\ MethodOwner(get_completion_source(available_shells, shell)) = "FishComplete"
    /\ completion_class' = get_completion_source(available_shells, shell)
    /\ IF COMP_WORDS = None \/ COMP_CWORD = None
       THEN /\ raised' = "KeyError"
            /\ spc' = "raised"
            /\ UNCHANGED <<engine_args, engine_incomplete, completions,
                           output, returned>>
       ELSE /\ engine_args' = fish_args(split_arg_string(COMP_WORDS), COMP_CWORD)
            /\ engine_incomplete' = COMP_CWORD
            /\ \E items \in CandidateLists :
                   /\ completions' = items
                   /\ output' = fish_lines(items)
            /\ returned' = "True"
            /\ spc' = "returned"
            /\ UNCHANGED raised
    /\ UNCHANGED <<available_shells, registration, registrations, line,
                   complete_instr, COMP_WORDS, COMP_CWORD, command, shell>>
    /\ UNCHANGED engine_vars

\* ShellComplete.complete, 157-166: the base class raises.
BaseComplete ==
    /\ spc = "complete"
    /\ MethodOwner(get_completion_source(available_shells, shell)) = "ShellComplete"
    /\ completion_class' = get_completion_source(available_shells, shell)
    /\ raised' = "NotImplementedError"
    /\ spc' = "raised"
    /\ UNCHANGED <<available_shells, registration, registrations, line,
                   complete_instr, COMP_WORDS, COMP_CWORD, command, shell,
                   engine_args, engine_incomplete, completions, output, returned>>
    /\ UNCHANGED engine_vars

ShellNext ==
    \/ AddCompletionClass
    \/ Activate
    \/ DispatchInstruction
    \/ EmitScript
    \/ BashCompleteComplete
    \/ ZshCompleteComplete
    \/ FishCompleteComplete
    \/ BaseComplete

ShellSpec == ShellInit /\ [][ShellNext]_vars

(***************************************************************************)
(* The completion engine                                                   *)
(***************************************************************************)

Init ==
    /\ cli \in Roots
    /\ args \in TokenLists(Vocabulary(cli), MaxArgs)
    /\ incomplete \in Incompletes(cli)
    /\ entry \in {"do_complete", "get_choices"}
    /\ pc = "start"
    /\ ctxs = <<>>
    /\ ctx = 0
    /\ sub_ctx = 0
    /\ rargs = <<>>
    /\ all_args = <<>>
    /\ partial_value = NoTarget
    /\ result = <<>>
    /\ first = NoRequest
    /\ ShellOff

(***************************************************************************)
(* resolve_ctx, one step per context it builds                             *)
(***************************************************************************)

\* do_complete 266-267 / get_choices 184-186 and resolve_ctx 417-418: copy
\* the tokens, build the root context, take its leftover tokens.  args
\* keeps the tokens as they were handed in; the list object itself goes to
\* make_context, and what the parser of click.core does to it is not part
\* of this state.
MakeRootContext ==
    /\ UNCHANGED shell_vars
    /\ pc = "start"
    /\ \E root \in {make_context(cli, args, 0, allow_interspersed_args(cli))} :
          /\ ctxs' = <<root>>
          /\ rargs' = root.protected_args \o root.args
    /\ ctx' = 1
    /\ all_args' = args
    /\ pc' = "loop"
    /\ UNCHANGED <<cli, args, incomplete, entry, sub_ctx, partial_value, result, first>>

\* LoopExit that leaves the loop only when the tokens have run out, never
\* for a leaf.
LoopExit_only_when_tokens_run_out ==
    /\ UNCHANGED shell_vars
    /\ pc = "loop"
    /\ rargs = <<>>
    /\ pc' = "resolved"
    /\ UNCHANGED <<cli, args, incomplete, entry, ctxs, ctx, sub_ctx, rargs,
                   all_args, partial_value, result, first>>

\* resolve_ctx 419-420, 446-448: no tokens left, or the active command is a
\* leaf: return ctx.
LoopExit ==
    /\ UNCHANGED shell_vars
    /\ pc = "loop"
    /\ rargs = <<>> \/ ~IsMultiCommand(Commands[ctxs[ctx].command])
    /\ pc' = "resolved"
    /\ UNCHANGED <<cli, args, incomplete, entry, ctxs, ctx, sub_ctx, rargs,
                   all_args, partial_value, result, first>>

\* resolve_ctx 421-428: a plain group resolves one child from the first
\* token and hands it every token after it; no such child: return ctx.
ResolveChild ==
    /\ UNCHANGED shell_vars
    /\ pc = "loop"
    /\ rargs # <<>>
    /\ IsMultiCommand(Commands[ctxs[ctx].command])
    /\ ~Commands[ctxs[ctx].command].chain
    /\ LET cmd == resolve_command(ctxs[ctx].command, rargs)
       IN IF cmd = None
          THEN /\ pc' = "resolved"
               /\ rargs' = Tail(rargs)
               /\ UNCHANGED <<ctxs, ctx>>
          ELSE \E child \in {make_context(cmd, Tail(rargs), ctx,
                                            allow_interspersed_args(cmd))} :
                  /\ ctxs' = Append(ctxs, child)
                  /\ ctx' = Len(ctxs) + 1
                  /\ rargs' = child.protected_args \o child.args
                  /\ pc' = "loop"
    /\ UNCHANGED <<cli, args, incomplete, entry, sub_ctx, all_args,
                   partial_value, result, first>>

\* resolve_ctx 429-431: a chained group enters the inner loop.
ChainEnter ==
    /\ UNCHANGED shell_vars
    /\ pc = "loop"
    /\ rargs # <<>>
    /\ IsMultiCommand(Commands[ctxs[ctx].command])
    /\ Commands[ctxs[ctx].command].chain
    /\ pc' = "chain"
    /\ UNCHANGED <<cli, args, incomplete, entry, ctxs, ctx, sub_ctx, rargs,
                   all_args, partial_value, result, first>>

\* ChainStep that makes each child after the first the child of the one
\* resolved before it.
ChainStep_parented_to_sibling ==
    /\ UNCHANGED shell_vars
    /\ pc = "chain"
    /\ rargs # <<>>
    /\ LET cmd == resolve_command(ctxs[ctx].command, rargs)
       IN IF cmd = None
          THEN /\ pc' = "resolved"
               /\ rargs' = Tail(rargs)
               /\ UNCHANGED <<ctxs, sub_ctx>>
          ELSE \E child \in {make_context(cmd, Tail(rargs),
                                          IF sub_ctx = 0 THEN ctx ELSE sub_ctx,
                                          FALSE)} :
                  /\ ctxs' = Append(ctxs, child)
                  /\ sub_ctx' = Len(ctxs) + 1
                  /\ rargs' = child.args
                  /\ pc' = "chain"
    /\ UNCHANGED <<cli, args, incomplete, entry, ctx, all_args,
                   partial_value, result, first>>

\* resolve_ctx 431-443: one pass of the inner loop.  The child's context
\* has the chained group's context as parent and takes no interspersed
\* arguments; what it leaves in args goes to the next pass.  No such child:
\* return ctx, which is still the chained group's context.
ChainStep ==
    /\ UNCHANGED shell_vars
    /\ pc = "chain"
    /\ rargs # <<>>
    /\ LET cmd == resolve_command(ctxs[ctx].command, rargs)
       IN IF cmd = None
          THEN /\ pc' = "resolved"
               /\ rargs' = Tail(rargs)
               /\ UNCHANGED <<ctxs, sub_ctx>>
          ELSE \E child \in {make_context(cmd, Tail(rargs), ctx, FALSE)} :
                  /\ ctxs' = Append(ctxs, child)
                  /\ sub_ctx' = Len(ctxs) + 1
                  /\ rargs' = child.args
                  /\ pc' = "chain"
    /\ UNCHANGED <<cli, args, incomplete, entry, ctx, all_args,
                   partial_value, result, first>>

\* resolve_ctx 444-445: the inner loop ran out of tokens; the last child
\* becomes ctx.
ChainExit ==
    /\ UNCHANGED shell_vars
    /\ pc = "chain"
    /\ rargs = <<>>
    /\ ctx' = sub_ctx
    /\ rargs' = ctxs[sub_ctx].protected_args \o ctxs[sub_ctx].args
    /\ pc' = "loop"
    /\ UNCHANGED <<cli, args, incomplete, entry, ctxs, sub_ctx, all_args,
                   partial_value, result, first>>

(***************************************************************************)
(* The two entry points once the context is resolved                       *)
(***************************************************************************)

\* Candidates with a display value already seen are dropped.
RECURSIVE Dedupe(_)
Dedupe(seq) ==
    IF seq = <<>> THEN <<>>
    ELSE LET init == Dedupe(SubSeq(seq, 1, Len(seq) - 1))
             x == seq[Len(seq)]
         IN IF \E j \in 1..Len(init) : init[j][1] = x[1] THEN init
            ELSE Append(init, x)

\* Command.shell_complete / Parameter.shell_complete of click.core: the
\* candidates of the object resolve_partial_value chose, as
\* (type, value, help) triples.  The object is handed the context, the
\* tokens as the split left them and the incomplete word, and nothing
\* else: a command looks for "--" among the tokens it is handed.
shell_complete(contexts, i, target, cur_args) ==
    LET has_double_dash == InSeq("--", cur_args)
        pairs ==
            IF target.kind = "param"
            THEN get_user_autocompletions(cur_args, target.incomplete,
                     get_params(Commands[contexts[i].command])[target.param])
            ELSE IF ~has_double_dash /\ start_of_option(target.incomplete)
            THEN option_name_completions(contexts[i], cur_args, target.incomplete)
            ELSE sorted(Dedupe(add_subcommand_completions(contexts, i,
                                                          target.incomplete)))
    IN [k \in 1..Len(pairs) |-> <<"none", pairs[k][1], pairs[k][2]>>]

\* do_complete 271: classify; the split appends to all_args in place.
ResolvePartialValue ==
    /\ UNCHANGED shell_vars
    /\ pc = "resolved"
    /\ entry = "do_complete"
    /\ partial_value' = resolve_partial_value(ctxs[ctx], all_args, incomplete)
    /\ all_args' = split_all_args(all_args, incomplete)
    /\ pc' = "partial"
    /\ UNCHANGED <<cli, args, incomplete, entry, ctxs, ctx, sub_ctx, rargs, result,
                   first>>

\* do_complete 272: the chosen object produces the candidates.
ShellComplete ==
    /\ UNCHANGED shell_vars
    /\ pc = "partial"
    /\ result' = shell_complete(ctxs, ctx, partial_value, all_args)
    /\ pc' = "done"
    /\ UNCHANGED <<cli, args, incomplete, entry, ctxs, ctx, sub_ctx, rargs,
                   all_args, partial_value, first>>

\* get_choices 190-226.
GetChoices ==
    /\ UNCHANGED shell_vars
    /\ pc = "resolved"
    /\ entry = "get_choices"
    /\ result' = get_choices(ctxs, ctx, all_args, incomplete)
    /\ all_args' = split_all_args(all_args, incomplete)
    /\ pc' = "done"
    /\ UNCHANGED <<cli, args, incomplete, entry, ctxs, ctx, sub_ctx, rargs,
                   partial_value, first>>

\* do_complete or get_choices is called a second time, by a caller that
\* has split the incomplete word at its first word break itself: after
\* (tokens, "--opt=va") it asks (tokens + ["--opt"], "va"), after (tokens, "=")
\* it asks (tokens, "").  The first answer is kept for comparison.  (No
\* adapter makes this call: a shell that breaks words at "=" hands the "="
\* over as a word of its own, and the adapters pass the words on as they
\* are.)
CompleteSplitForm ==
    /\ UNCHANGED shell_vars
    /\ pc = "done"
    /\ first = NoRequest
    /\ \/ /\ Slice(incomplete, 1, 1) = "-"
          /\ \E k \in 1..Len(incomplete) :
                 /\ SubSeq(incomplete, k, k) = "="
                 /\ \A j \in 1..(k - 1) : SubSeq(incomplete, j, j) # "="
                 /\ args' = Append(args, SubSeq(incomplete, 1, k - 1))
                 /\ incomplete' = SubSeq(incomplete, k + 1, Len(incomplete))
       \/ /\ incomplete = "="
          /\ args' = args
          /\ incomplete' = ""
    /\ first' = [kind |-> "split", args |-> args, incomplete |-> incomplete,
                 partial_value |-> partial_value, result |-> result,
                 ctxs |-> ctxs, ctx |-> ctx]
    /\ pc' = "start"
    /\ ctxs' = <<>>
    /\ ctx' = 0
    /\ sub_ctx' = 0
    /\ rargs' = <<>>
    /\ all_args' = <<>>
    /\ partial_value' = NoTarget
    /\ result' = <<>>
    /\ UNCHANGED <<cli, entry>>

Next ==
    \/ MakeRootContext
    \/ LoopExit
    \/ ResolveChild
    \/ ChainEnter
    \/ ChainStep
    \/ ChainExit
    \/ ResolvePartialValue
    \/ ShellComplete
    \/ GetChoices
    \/ CompleteSplitForm

Spec == Init /\ [][Next]_vars

(***************************************************************************)
(* resolve_ctx on its own                                                  *)
(***************************************************************************)

\* One call of resolve_ctx, as do_complete makes it at 266-267.  The
\* incomplete word plays no part in it.
ResolveInit == Init /\ entry = "do_complete" /\ incomplete = ""

ResolveNext ==
    \/ MakeRootContext
    \/ LoopExit
    \/ ResolveChild
    \/ ChainEnter
    \/ ChainStep
    \/ ChainExit

\* resolve_ctx is straight-line sequential code: whenever it has a next
\* step it takes it.
ResolveSpec == ResolveInit /\ [][ResolveNext]_vars /\ WF_vars(ResolveNext)

(***************************************************************************)
(* Properties                                                              *)
(***************************************************************************)

\* The resolved context and its command, once resolve_ctx has returned.
Resolved == pc \in {"resolved", "partial", "done"}

Active == ctxs[ctx]

ActiveCommand == Commands[Active.command]

ActiveParams == get_params(ActiveCommand)

\* "--" among the tokens the caller passed.
HasDoubleDash == InSeq("--", args)

\* The incomplete word after the word-break normalisation.
Normalised == split_incomplete(incomplete)

\* The tokens after the word-break normalisation.
NormalisedArgs == split_all_args(args, incomplete)

\* Positions, in declaration order, of the parameters of the active command
\* that are still awaiting a value.
OpenOptions ==
    {i \in 1..Len(ActiveParams) : is_incomplete_option(NormalisedArgs, ActiveParams[i])}

OpenArguments ==
    {i \in 1..Len(ActiveParams) : is_incomplete_argument(Active.params, ActiveParams[i])}

Lowest(S) == CHOOSE x \in S : \A y \in S : x <= y

\* The incomplete word asks for option names.
WantsOptionNames == ~HasDoubleDash /\ start_of_option(Normalised)

Classified == entry = "do_complete" /\ pc \in {"partial", "done"}

Answered == entry = "get_choices" /\ pc = "done"

\* C1: resolve_partial_value picks its target in strict priority order: the
\* command (option names) when the incomplete starts with "-" and "--" is
\* not among the tokens, even if an option awaits a value; else the first
\* option awaiting a value; else the first argument awaiting a value; else
\* the command (subcommand names).
C1_PriorityOrder ==
    Classified =>
        /\ partial_value.incomplete = Normalised
        /\ IF WantsOptionNames
           THEN partial_value.kind = "command"
           ELSE IF OpenOptions # {}
           THEN /\ partial_value.kind = "param"
                /\ partial_value.param = Lowest(OpenOptions)
           ELSE IF OpenArguments # {}
           THEN /\ partial_value.kind = "param"
                /\ partial_value.param = Lowest(OpenArguments)
           ELSE partial_value.kind = "command"

\* An option awaits a value, yet the incomplete word starts with "-" and the
\* command is chosen.
C1_Witness ==
    /\ Classified
    /\ WantsOptionNames
    /\ OpenOptions # {}
    /\ OpenArguments # {}
    /\ partial_value.kind = "command"

\* What the classification yields below the option-name case: the values of
\* the first open option, else of the first open argument, else the
\* subcommand names.
ValueOrSubcommandCandidates ==
    IF OpenOptions # {}
    THEN get_user_autocompletions(NormalisedArgs, Normalised,
                                  ActiveParams[Lowest(OpenOptions)])
    ELSE IF OpenArguments # {}
    THEN get_user_autocompletions(NormalisedArgs, Normalised,
                                  ActiveParams[Lowest(OpenArguments)])
    ELSE sorted(add_subcommand_completions(ctxs, ctx, Normalised))

\* C2: when "--" is among the caller's tokens no option-name completion is
\* offered, whatever the incomplete word: the candidates are those of an open
\* option value, an open argument value or the subcommand names, and the
\* command is the target only when nothing awaits a value.
C2_NoOptionNamesAfterDoubleDash ==
    /\ (Answered /\ HasDoubleDash) => result = ValueOrSubcommandCandidates
    /\ (Classified /\ HasDoubleDash /\ partial_value.kind = "command")
           => (OpenOptions = {} /\ OpenArguments = {})

\* "--" was typed, the incomplete word starts with "-", and the candidates
\* are values.
C2_Witness ==
    /\ Answered
    /\ HasDoubleDash
    /\ start_of_option(Normalised)
    /\ result # <<>>

\* The spellings of a parameter, primary before secondary.
Spellings(param) == param.opts \o param.secondary_opts

\* <<i, k>>: the k-th spelling of the i-th parameter of the active command
\* is to be offered as an option name.
OfferedSpellings ==
    {e \in UNION {{<<i, k>> : k \in 1..Len(Spellings(ActiveParams[i]))} :
                     i \in 1..Len(ActiveParams)} :
        /\ ActiveParams[e[1]].cls = "Option"
        /\ ~ActiveParams[e[1]].hidden
        /\ StartsWith(Spellings(ActiveParams[e[1]])[e[2]], Normalised)
        /\ \/ ~InSeq(Spellings(ActiveParams[e[1]])[e[2]], NormalisedArgs)
           \/ ActiveParams[e[1]].multiple}

\* Declaration order, then primary before secondary.
DeclaredBefore(e, f) == e[1] < f[1] \/ (e[1] = f[1] /\ e[2] < f[2])

\* C3: option-name completion returns, in declaration order, exactly the
\* spellings of the visible options of the active command that start with
\* the incomplete word and are absent from the tokens or belong to a
\* repeatable option, each with that option's help; a typed spelling of a
\* non-repeatable option is never offered.
C3_OptionNames ==
    (Answered /\ WantsOptionNames) =>
        /\ Len(result) = Cardinality(OfferedSpellings)
        /\ \A e \in OfferedSpellings :
               result[1 + Cardinality({f \in OfferedSpellings : DeclaredBefore(f, e)})]
                   = <<Spellings(ActiveParams[e[1]])[e[2]], ActiveParams[e[1]].help>>
        /\ \A n \in 1..Len(result) : \A i \in 1..Len(ActiveParams) :
               (/\ ~ActiveParams[i].multiple
                /\ InSeq(result[n][1], Spellings(ActiveParams[i])))
                   => ~InSeq(result[n][1], NormalisedArgs)

\* A repeatable option's spelling was typed and is offered again while a
\* typed spelling of a non-repeatable option is left out.
C3_Witness ==
    /\ Answered
    /\ WantsOptionNames
    /\ \E n \in 1..Len(result) : InSeq(result[n][1], NormalisedArgs)
    /\ \E i \in 1..Len(ActiveParams) :
           /\ ActiveParams[i].cls = "Option"
           /\ ~ActiveParams[i].multiple
           /\ InSeq(ActiveParams[i].opts[1], NormalisedArgs)
           /\ \A n \in 1..Len(result) : result[n][1] # ActiveParams[i].opts[1]

\* The tokens is_incomplete_option looks at.
WithoutWordBreak(tokens) == SelectSeq(tokens, LAMBDA arg : arg # WORDBREAK)

\* The tokens end with a spelling of param followed by exactly k words, none
\* of which starts an option.
FlagThenValues(tokens, param, k) ==
    /\ Len(tokens) > k
    /\ InSeq(tokens[Len(tokens) - k], param.opts)
    /\ \A j \in (Len(tokens) - k + 1)..Len(tokens) : ~start_of_option(tokens[j])

\* The options of the active command that take values.
ValueOptions ==
    {i \in 1..Len(ActiveParams) :
        /\ ActiveParams[i].cls = "Option"
        /\ ~ActiveParams[i].is_flag
        /\ ActiveParams[i].nargs > 0}

\* C4: for a non-flag option with nargs = n > 0, while fewer than n values
\* have followed its flag the open word is classified as that option's
\* value, and once n values have followed it the option no longer awaits a
\* value.  "Fewer than n values have followed" is taken where the parser and
\* the token list agree on it: the parse of the active command stopped at
\* that option for want of values, and the tokens end with its flag and
\* k < n plain words.
C4_OptionArity ==
    (Classified /\ NormalisedArgs = args) =>
        \A i \in ValueOptions :
            /\ (/\ Active.pending = ActiveParams[i].name
                /\ \E k \in 0..(ActiveParams[i].nargs - 1) :
                       FlagThenValues(WithoutWordBreak(args), ActiveParams[i], k))
                   => /\ is_incomplete_option(args, ActiveParams[i])
                      /\ ~WantsOptionNames
                             => partial_value = [kind |-> "param", param |-> i,
                                                 incomplete |-> Normalised]
            /\ (/\ Active.pending # ActiveParams[i].name
                /\ \A k \in 0..(ActiveParams[i].nargs - 1) :
                       ~FlagThenValues(WithoutWordBreak(args), ActiveParams[i], k))
                   => /\ ~is_incomplete_option(args, ActiveParams[i])
                      /\ partial_value.param # i

\* The second half of C4 alone.
C4_ClosedAfterValues ==
    (Classified /\ NormalisedArgs = args) =>
        \A i \in ValueOptions :
            (/\ Active.pending # ActiveParams[i].name
             /\ \A k \in 0..(ActiveParams[i].nargs - 1) :
                    ~FlagThenValues(WithoutWordBreak(args), ActiveParams[i], k))
                => ~is_incomplete_option(args, ActiveParams[i])

\* The request in hand is the split form of an earlier one.
SplitForm == first.kind = "split"

\* C5, as the specification has it: completing (tokens, F + "=" + P) gives what completing
\* (tokens + [F], P) gives, the context being resolved over the extended
\* tokens, and "=" alone is treated as the empty word.
C5_SplitEquivalence ==
    /\ (Answered /\ SplitForm) => result = first.result
    /\ (Classified /\ SplitForm) => partial_value = first.partial_value

\* The contexts from contexts[i] up to the root, the active one first.
RECURSIVE Lineage(_, _)
Lineage(contexts, i) ==
    IF i = 0 THEN <<>>
    ELSE <<contexts[i]>> \o Lineage(contexts, contexts[i].parent)

\* What the candidates read of a resolved context: the command and parsed
\* values of the active context, the command and command words of each
\* ancestor.
Resolution(contexts, i) ==
    LET lineage == Lineage(contexts, i)
    IN [k \in 1..Len(lineage) |->
           IF k = 1
           THEN [command |-> lineage[k].command, params |-> lineage[k].params]
           ELSE [command |-> lineage[k].command,
                 protected_args |-> lineage[k].protected_args]]

\* The request in hand resolved to what the earlier one resolved to, and
\* "--" is among its tokens only if it was among the earlier tokens.
SameResolution ==
    /\ Resolution(ctxs, ctx) = Resolution(first.ctxs, first.ctx)
    /\ HasDoubleDash = InSeq("--", first.args)

\* The incomplete word in hand is one the normalisation leaves as it is: it
\* is not the word break alone, and it does not both start an option and
\* hold a word break.
TakenAsIs == Normalised = incomplete /\ NormalisedArgs = args

\* C5, as the code has it: the part before the first "=" is appended to the copy of
\* the tokens the classification reads, after the context has been resolved
\* over the caller's tokens and after "--" has been looked up in them; the
\* part after it becomes the incomplete word, and "=" alone the empty word.
\* The normalisation is applied once to the word it is given.  Completing
\* (tokens, F=P) gives what completing (tokens + [F], P) gives whenever the
\* two requests resolve to the same context, F does not bring "--" among
\* the tokens, and P is not itself a word the normalisation rewrites (P is
\* not "=" and is not an option-like word holding "=").
C5_SplitAfterResolution ==
    /\ (Answered /\ SplitForm /\ SameResolution /\ TakenAsIs)
           => result = first.result
    /\ (Classified /\ SplitForm /\ SameResolution /\ TakenAsIs)
           => partial_value = first.partial_value
    /\ (Classified /\ pc = "done" /\ SplitForm /\ SameResolution /\ TakenAsIs)
           => result = first.result

\* "--opt=va" typed in one word and "--opt" "va" typed in two both end with
\* the option's values, the second word of neither being empty.
C5_Witness ==
    /\ Answered
    /\ SplitForm
    /\ SameResolution
    /\ TakenAsIs
    /\ args # first.args
    /\ incomplete # ""
    /\ result # <<>>
    /\ result = first.result

\* get_choices reached its last branch: neither option names nor the
\* values of an open parameter are asked for.
SubcommandNames ==
    /\ Answered
    /\ ~WantsOptionNames
    /\ OpenOptions = {}
    /\ OpenArguments = {}

\* The children of a container that are not hidden and whose name starts
\* with prefix.
VisibleChildren(cmd, prefix) ==
    {c \in {cmd.commands[k] : k \in 1..Len(cmd.commands)} :
        ~Commands[c].hidden /\ StartsWith(Commands[c].name, prefix)}

\* The (value, help) pairs of a candidate list.
Pairs(candidates) == {candidates[n] : n \in 1..Len(candidates)}

\* C6: when the token stream leaves a container as the active command,
\* subcommand-name completion returns exactly its non-hidden children whose
\* name starts with the incomplete word, sorted by name, each with its short
\* help; the children of a non-chained ancestor container are not added.
C6_SubcommandNames ==
    (SubcommandNames /\ IsMultiCommand(ActiveCommand)) =>
        /\ Pairs(result) =
               {<<Commands[c].name, Commands[c].short_help>> :
                    c \in VisibleChildren(ActiveCommand, Normalised)}
        /\ Len(result) = Cardinality(VisibleChildren(ActiveCommand, Normalised))
        /\ \A n \in 1..(Len(result) - 1) : StrLess(result[n][1], result[n + 1][1])

\* A container below a plain container is active; two of its children are
\* listed, one with an empty short help, and its parent has a visible child
\* of its own that the incomplete word would match.
C6_Witness ==
    /\ SubcommandNames
    /\ IsMultiCommand(ActiveCommand)
    /\ Active.parent # 0
    /\ VisibleChildren(Commands[ctxs[Active.parent].command], Normalised) # {}
    /\ Len(result) = 2
    /\ result[1][2] = ""
    /\ result[2][2] # ""

\* The active command is a child of a chained container.
BelowChained ==
    /\ Active.parent # 0
    /\ Commands[ctxs[Active.parent].command].chain

\* The children of the container at index parent that resolve_ctx has
\* entered: the commands invoked on the line.
Invoked(parent) ==
    {ctxs[k].command : k \in {j \in 1..Len(ctxs) : ctxs[j].parent = parent}}

\* C7: in a chained container, once a child has been resolved, every other
\* non-hidden child whose name starts with the incomplete word remains a
\* candidate; a child is left out exactly when it has been invoked as a
\* command on the line, not because its name occurs there as a value.
C7_ChainedSiblings ==
    (SubcommandNames /\ BelowChained) =>
        Pairs(result) =
            {<<Commands[c].name, Commands[c].short_help>> :
                 c \in VisibleChildren(Commands[ctxs[Active.parent].command],
                                       Normalised)
                       \ Invoked(Active.parent)}

\* C8: resolve_ctx returns the deepest context it has resolved: when a
\* token in command position names no child it stops and returns the
\* context built last; in a chained container that is the last child
\* resolved, the container's own context only if no child has matched.
C8_DeepestContext ==
    pc = "resolved" => ctx = Len(ctxs)

\* Positions of the hidden options of the active command.
HiddenOptions ==
    {i \in 1..Len(ActiveParams) :
        ActiveParams[i].cls = "Option" /\ ActiveParams[i].hidden}

\* Names of the hidden children of the containers from the active context
\* up to the root.
HiddenChildNames ==
    LET lineage == Lineage(ctxs, ctx)
    IN UNION {{Commands[c].name :
                  c \in {d \in {Commands[lineage[k].command].commands[m] :
                                   m \in 1..Len(Commands[lineage[k].command].commands)} :
                            Commands[d].hidden}} :
              k \in 1..Len(lineage)}

\* The last word the classification looks at, None on an empty line.
LastWord ==
    LET words == WithoutWordBreak(NormalisedArgs)
    IN IF words = <<>> THEN None ELSE words[Len(words)]

\* Context k is a group whose first leftover token names a hidden child.
NamesHiddenChild(k) ==
    /\ IsMultiCommand(Commands[ctxs[k].command])
    /\ ctxs[k].protected_args # <<>>
    /\ get_command(Commands[ctxs[k].command], ctxs[k].protected_args[1]) # None
    /\ Commands[get_command(Commands[ctxs[k].command],
                            ctxs[k].protected_args[1])].hidden

\* C9: hidden options and hidden commands never appear among option-name or
\* subcommand-name candidates, whatever the incomplete word; yet a hidden
\* option spelled verbatim as the last word has its values offered, and a
\* hidden command named in command position has its context entered: the
\* context returned is that command's or one below it.
C9_HiddenNotListedButResolvable ==
    /\ (Answered /\ WantsOptionNames) =>
           \A n \in 1..Len(result) : \A i \in HiddenOptions :
               ~InSeq(result[n][1], Spellings(ActiveParams[i]))
    /\ SubcommandNames =>
           \A n \in 1..Len(result) : result[n][1] \notin HiddenChildNames
    /\ (Answered /\ ~WantsOptionNames) =>
           \A i \in HiddenOptions :
               (~ActiveParams[i].is_flag /\ InSeq(LastWord, ActiveParams[i].opts))
                   => result = get_user_autocompletions(
                                   NormalisedArgs, Normalised, ActiveParams[i])
    /\ Resolved =>
           \A k \in 1..Len(ctxs) :
               NamesHiddenChild(k)
                   => \E j \in 1..Len(ctxs) :
                          /\ ctxs[j].parent = k
                          /\ ctxs[j].command =
                                 get_command(Commands[ctxs[k].command],
                                             ctxs[k].protected_args[1])
                          /\ \E m \in 1..Len(Lineage(ctxs, ctx)) :
                                 Lineage(ctxs, ctx)[m] = ctxs[j]

\* What holds of C9: hidden names are never listed; a hidden option spelled
\* as the last word awaits its value, and its values are the candidates
\* when no option declared before it is taken to await one; a hidden
\* command named in command position gets its context, which is the one
\* returned, or above the one returned, below a plain group.
C9_HiddenNotListed ==
    /\ (Answered /\ WantsOptionNames) =>
           \A n \in 1..Len(result) : \A i \in HiddenOptions :
               ~InSeq(result[n][1], Spellings(ActiveParams[i]))
    /\ SubcommandNames =>
           \A n \in 1..Len(result) : result[n][1] \notin HiddenChildNames
    /\ (Answered /\ ~WantsOptionNames) =>
           \A i \in HiddenOptions :
               (~ActiveParams[i].is_flag /\ InSeq(LastWord, ActiveParams[i].opts))
                   => /\ i \in OpenOptions
                      /\ i = Lowest(OpenOptions) =>
                             result = get_user_autocompletions(
                                          NormalisedArgs, Normalised, ActiveParams[i])
    /\ Resolved =>
           \A k \in 1..Len(ctxs) :
               NamesHiddenChild(k)
                   => \E j \in 1..Len(ctxs) :
                          /\ ctxs[j].parent = k
                          /\ ctxs[j].command =
                                 get_command(Commands[ctxs[k].command],
                                             ctxs[k].protected_args[1])
                          /\ ~Commands[ctxs[k].command].chain =>
                                 \E m \in 1..Len(Lineage(ctxs, ctx)) :
                                     Lineage(ctxs, ctx)[m] = ctxs[j]

\* A hidden group was named on the line and is the active command: its
\* child is listed, while the hidden group itself is not among the
\* candidates of its parent's prefix.
C9_Witness ==
    /\ SubcommandNames
    /\ ActiveCommand.hidden
    /\ IsMultiCommand(ActiveCommand)
    /\ result # <<>>
    /\ HiddenChildNames # {}

\* A hidden option was spelled as the last word and its choices are offered.
C9_WitnessOption ==
    /\ Answered
    /\ \E i \in HiddenOptions :
           /\ InSeq(LastWord, ActiveParams[i].opts)
           /\ result = get_user_autocompletions(NormalisedArgs, Normalised,
                                                ActiveParams[i])
    /\ result # <<>>

\* get_choices answers with the values of a parameter.
ValueCandidates ==
    /\ Answered
    /\ ~WantsOptionNames
    /\ OpenOptions \cup OpenArguments # {}

\* The parameter whose values are asked for.
TargetParam ==
    IF OpenOptions # {} THEN ActiveParams[Lowest(OpenOptions)]
    ELSE ActiveParams[Lowest(OpenArguments)]

\* C10: the value candidates of a parameter are: with a fixed choice set,
\* exactly the choices that start with the incomplete word, in their order
\* and without description, the callback not being consulted; else with a
\* callback, exactly the callback's items in the callback's order, a bare
\* value becoming (value, no description), with no prefix filtering added;
\* else none.
C10_ValueCandidates ==
    ValueCandidates =>
        IF TargetParam.choices # <<>>
        THEN LET matching == SelectSeq(TargetParam.choices,
                                       LAMBDA c : StartsWith(c, Normalised))
             IN /\ Len(result) = Len(matching)
                /\ \A n \in 1..Len(result) : result[n] = <<matching[n], None>>
        ELSE IF TargetParam.autocompletion # None
        THEN LET items == autocompletion(TargetParam.autocompletion, Normalised)
             IN /\ Len(result) = Len(items)
                /\ \A n \in 1..Len(result) :
                       /\ result[n][1] = items[n].value
                       /\ result[n][2] = IF items[n].tuple THEN items[n].help
                                         ELSE None
        ELSE result = <<>>

\* A parameter with both a choice set and a callback is asked for values:
\* the choices with the prefix are the candidates, none of them an item of
\* the callback.
C10_Witness ==
    /\ ValueCandidates
    /\ TargetParam.choices # <<>>
    /\ TargetParam.autocompletion # None
    /\ Normalised # ""
    /\ Len(result) = 2
    /\ Len(result) < Len(TargetParam.choices) + 1
    /\ \A n \in 1..Len(result) : ~InSeq(result[n][1], COLORS)

\* A callback's items are the candidates although none of them starts with
\* the incomplete word; bare values and tuples come out as pairs.
C10_WitnessCallback ==
    /\ ValueCandidates
    /\ TargetParam.choices = <<>>
    /\ TargetParam.autocompletion # None
    /\ Normalised # ""
    /\ result # <<>>
    /\ \A n \in 1..Len(result) : ~StartsWith(result[n][1], Normalised)
    /\ \E n \in 1..Len(result) : result[n][2] # None
    /\ \E n \in 1..Len(result) : result[n][2] = None

\* A parameter with neither choices nor callback has no candidates.
C10_WitnessFreeText ==
    /\ ValueCandidates
    /\ TargetParam.choices = <<>>
    /\ TargetParam.autocompletion = None
    /\ result = <<>>

\* C11: the subcommand-name result, formed from the children of the active
\* container and of every chained ancestor, holds no two candidates with the
\* same display value and is sorted by display value.
C11_SubcommandNamesDistinctSorted ==
    SubcommandNames =>
        /\ \A m, n \in 1..Len(result) : m # n => result[m][1] # result[n][1]
        /\ \A n \in 1..(Len(result) - 1) : StrLess(result[n][1], result[n + 1][1])

\* A chained container is the active command and two of its children are
\* listed.
C11_Witness ==
    /\ SubcommandNames
    /\ IsMultiCommand(ActiveCommand)
    /\ ActiveCommand.chain
    /\ Len(result) >= 2

\* A leaf below a chained container is active and a sibling is listed.
C11_WitnessSibling ==
    /\ SubcommandNames
    /\ BelowChained
    /\ result # <<>>

\* The largest member of a non-empty set of numbers.
Highest(S) == CHOOSE x \in S : \A y \in S : y <= x

\* The positions of the option-like words among the last nargs of tokens.
OptionLikeInWindow(tokens, nargs) ==
    {j \in 1..Len(tokens) :
        /\ j > Len(tokens) - nargs
        /\ start_of_option(tokens[j])}

\* C18: is_incomplete_option decides by the nearest preceding option-like
\* word: among the last nargs words of the arguments so far, "=" words
\* ignored, the option-like word closest to the end is the one compared with
\* the option's spellings, so a non-flag option awaits a value exactly when
\* that word exists and is one of its spellings.
C18_NearestOptionWins ==
    Classified =>
        \A i \in 1..Len(ActiveParams) :
            (ActiveParams[i].cls = "Option" /\ ~ActiveParams[i].is_flag) =>
                LET tokens == WithoutWordBreak(NormalisedArgs)
                    window == OptionLikeInWindow(tokens, ActiveParams[i].nargs)
                IN  is_incomplete_option(NormalisedArgs, ActiveParams[i])
                        <=> /\ window # {}
                            /\ InSeq(tokens[Highest(window)], ActiveParams[i].opts)

\* The arguments of the active command that can still take a value, read off
\* the parsed values of the active context: nothing parsed yet, or nargs is
\* -1, or nargs > 1 with fewer than nargs values collected.
AwaitingArguments ==
    {i \in 1..Len(ActiveParams) :
        /\ ActiveParams[i].cls = "Argument"
        /\ LET value == Active.params[ActiveParams[i].name]
               nargs == ActiveParams[i].nargs
           IN \/ value.none
              \/ nargs = -1
              \/ nargs > 1 /\ Len(value.val) < nargs}

\* The active command declares an argument with nargs = -1.
HasUnboundedArgument ==
    \E i \in 1..Len(ActiveParams) :
        ActiveParams[i].cls = "Argument" /\ ActiveParams[i].nargs = -1

\* C19: is_incomplete_argument is False for every parameter that is not an
\* argument, and for an argument it is True exactly when no value has been
\* parsed yet, or nargs is -1, or nargs > 1 and fewer than nargs values have
\* been collected.  So when the open word is not an option name and no
\* option awaits a value, the classification is the first such argument,
\* and the command only when there is none; a command with an unbounded
\* argument is never classified for subcommand names.
C19_ArgumentAwaitsValue ==
    Classified =>
        /\ (~WantsOptionNames /\ OpenOptions = {}) =>
               IF AwaitingArguments # {}
               THEN /\ partial_value.kind = "param"
                    /\ partial_value.param = Lowest(AwaitingArguments)
               ELSE partial_value.kind = "command"
        /\ partial_value.kind = "param" =>
               \/ partial_value.param \in OpenOptions
               \/ partial_value.param \in AwaitingArguments
        /\ (HasUnboundedArgument /\ partial_value.kind = "command")
               => WantsOptionNames

\* An unbounded argument that already holds a value is still the target.
C19_Witness ==
    /\ Classified
    /\ ~WantsOptionNames
    /\ OpenOptions = {}
    /\ partial_value.kind = "param"
    /\ ActiveParams[partial_value.param].cls = "Argument"
    /\ ActiveParams[partial_value.param].nargs = -1
    /\ ~Active.params[ActiveParams[partial_value.param].name].none

\* A single-valued argument that holds its value is closed and the command
\* is the target.
C19_WitnessClosed ==
    /\ Classified
    /\ ~WantsOptionNames
    /\ OpenOptions = {}
    /\ \E i \in 1..Len(ActiveParams) :
           /\ ActiveParams[i].cls = "Argument"
           /\ ~Active.params[ActiveParams[i].name].none
    /\ AwaitingArguments = {}
    /\ partial_value.kind = "command"

\* resolve_ctx is about to return: at the head of the outer loop no tokens
\* remain or the active command is a leaf, or the first remaining token
\* names no child of the active group.
StopsHere ==
    /\ pc \in {"loop", "chain"}
    /\ \/ pc = "loop" /\ rargs = <<>>
       \/ pc = "loop" /\ ~IsMultiCommand(ActiveCommand)
       \/ /\ rargs # <<>>
          /\ IsMultiCommand(ActiveCommand)
          /\ resolve_command(Active.command, rargs) = None

\* C20: resolve_ctx terminates for every finite token stream and command
\* tree: every call reaches its return.  It returns exactly when the active
\* command is a leaf, no further child name resolves, or no tokens remain:
\* no return happens otherwise, and once one of the three holds no further
\* context is built.  Each resolved child takes at least one token off the
\* remaining ones, and what is returned is always a context that was built.
C20_ResolveTerminates ==
    /\ (pc = "start") ~> (pc = "resolved")
    /\ [](pc = "resolved" => ctx \in 1..Len(ctxs))
    /\ [][pc' = "resolved" => StopsHere]_vars
    /\ [][StopsHere => /\ ctxs' = ctxs
                       /\ ctx' = ctx
                       /\ pc' \in {"resolved", "chain"}]_vars
    /\ [][Len(ctxs') > Len(ctxs) /\ pc # "start"
              => Len(rargs') < Len(rargs)]_vars

\* resolve_ctx returned a leaf's context with tokens still unread, after
\* resolving at least one child.
C20_Witness ==
    /\ pc = "resolved"
    /\ Len(ctxs) > 1
    /\ ~IsMultiCommand(ActiveCommand)
    /\ rargs # <<>>

\* resolve_ctx returned a group's context because a token named no child.
C20_WitnessNoChild ==
    /\ pc = "resolved"
    /\ IsMultiCommand(ActiveCommand)
    /\ Len(args) = MaxArgs
    /\ \E n \in 1..Len(args) : resolve_command(Active.command, <<args[n]>>) = None

\* The contexts met walking up from context i through parent, i first, in
\* at most n steps; the walk ends at a context that has no parent.
RECURSIVE parent_chain(_, _)
parent_chain(i, n) ==
    IF n = 0 \/ i \notin 1..Len(ctxs) THEN <<>>
    ELSE <<i>> \o parent_chain(ctxs[i].parent, n - 1)

\* The parent chain of context i is finite and acyclic and ends at the root
\* context, the one built first and without parent.
EndsAtRoot(i) ==
    LET chain == parent_chain(i, Len(ctxs))
    IN /\ chain # <<>>
       /\ chain[Len(chain)] = 1
       /\ ctxs[1].parent = 0
       /\ \A a, b \in 1..Len(chain) : a # b => chain[a] # chain[b]

\* Context i was built for a child of the group context p stands for.
ResolvedBy(i, p) ==
    /\ p \in 1..(i - 1)
    /\ IsMultiCommand(Commands[ctxs[p].command])
    /\ \E k \in 1..Len(Commands[ctxs[p].command].commands) :
           Commands[ctxs[p].command].commands[k] = ctxs[i].command

\* The contexts resolved by context p, in creation order.
ChildrenOf(p) == {i \in 1..Len(ctxs) : ctxs[i].parent = p}

\* The tokens from which the child context i of p was resolved: for a plain
\* group and for the first child of a chained one what p left over, for a
\* later child of a chained group what the child before it left in args.
TokensFor(i, p) ==
    IF Commands[ctxs[p].command].chain /\ ctxs[i - 1].parent = p
    THEN ctxs[i - 1].args
    ELSE ctxs[p].protected_args \o ctxs[p].args

\* Context i is the context of the child the first of the tokens names,
\* built over every token after it.
BuiltFrom(i, p, tokens) ==
    /\ tokens # <<>>
    /\ resolve_command(ctxs[p].command, tokens) = ctxs[i].command
    /\ ctxs[i] = make_context(ctxs[i].command, Tail(tokens), p,
                              IF Commands[ctxs[p].command].chain THEN FALSE
                              ELSE allow_interspersed_args(ctxs[i].command))

\* C21: every context resolve_ctx creates has as parent the context of the
\* container that resolved it, the one active when it was built, so every
\* parent chain is finite, acyclic and ends at the root context.  A plain
\* group resolves exactly one child per level, over all its remaining
\* tokens.  Every child of a chained group has the group's context as
\* parent, never a sibling's, and each child after the first is resolved
\* from exactly the tokens the one before it left unconsumed.
C21_ParentChain ==
    /\ [](\A i \in 1..Len(ctxs) :
             /\ EndsAtRoot(i)
             /\ i > 1 => /\ ResolvedBy(i, ctxs[i].parent)
                         /\ BuiltFrom(i, ctxs[i].parent,
                                      TokensFor(i, ctxs[i].parent)))
    /\ [](\A p \in 1..Len(ctxs) :
             /\ ~Commands[ctxs[p].command].chain
                    => Cardinality(ChildrenOf(p)) <= 1
             /\ Commands[ctxs[p].command].chain
                    => \A i \in ChildrenOf(p) : ChildrenOf(i) = {})
    /\ [](Resolved => EndsAtRoot(ctx))
    /\ [][Len(ctxs') > Len(ctxs)
              => /\ ctxs' = Append(ctxs, ctxs'[Len(ctxs')])
                 /\ ctxs'[Len(ctxs')].parent = ctx
                 /\ pc = "loop" => ctx' = Len(ctxs')
                 /\ pc = "chain" => ctx' = ctx /\ sub_ctx' = Len(ctxs')]_vars

\* resolve_ctx returned after a chained group resolved two children one
\* after the other, the second from what the first left unconsumed.
C21_Witness ==
    /\ pc = "resolved"
    /\ \E p \in 1..Len(ctxs) :
           /\ Commands[ctxs[p].command].chain
           /\ Cardinality(ChildrenOf(p)) >= 2
           /\ \E i \in ChildrenOf(p) : i - 1 \in ChildrenOf(p) /\ ctxs[i - 1].args # <<>>

\* resolve_ctx returned the context of a plain group's child that was
\* handed more tokens than its name, three levels below the root.
C21_WitnessPlain ==
    /\ pc = "resolved"
    /\ Len(parent_chain(ctx, Len(ctxs))) >= 3
    /\ ~Commands[ctxs[ctxs[ctx].parent].command].chain
    /\ ctxs[ctxs[ctx].parent].args # <<>>

(***************************************************************************)
(* Properties of the shell layer                                           *)
(***************************************************************************)

\* The adapter each shell family's activation script addresses.
AdapterOf(family) ==
    CASE family = "bash" -> "BashComplete"
      [] family = "zsh" -> "ZshComplete"
      [] family = "fish" -> "FishComplete"
      [] OTHER -> None

\* An adapter has answered a completion request.
Completed == spc = "returned" /\ command = "complete"

\* The request came from a shell's completion function and was served by
\* that shell's adapter.
ByShell ==
    /\ line # NoLine
    /\ MethodOwner(completion_class) = AdapterOf(line.family)

\* C13: for every line and cursor position a shell reports, its adapter
\* passes to the engine the words strictly between the program name and the
\* word under the cursor as the token stream, and the word under the cursor
\* as the incomplete string, the empty string when the cursor is past the
\* last word; the word being completed is not among the tokens passed.
C13_AdapterSlicing ==
    (Completed /\ ByShell) =>
        /\ engine_args = SubSeq(line.words, 2, line.cursor)
        /\ engine_incomplete =
               IF line.cursor < Len(line.words) THEN line.words[line.cursor + 1]
               ELSE ""
        /\ Len(engine_args) = line.cursor - 1

\* What holds of C13: the adapters of bash and zsh pass on the words and
\* the incomplete as the claim says wherever the cursor stands, the fish
\* adapter when the cursor stands at the end of its word or on a new one.
C13_AdapterSlicingAtWordEnd ==
    (/\ Completed
     /\ ByShell
     /\ \/ line.family # "fish"
        \/ line.cursor = Len(line.words)
        \/ line.within = Len(line.words[line.cursor + 1])) =>
        /\ engine_args = SubSeq(line.words, 2, line.cursor)
        /\ engine_incomplete =
               IF line.cursor < Len(line.words) THEN line.words[line.cursor + 1]
               ELSE ""

\* The fish adapter dropped the word under the cursor from the words it
\* was given, a word equal to it staying in front.
C13_Witness ==
    /\ Completed
    /\ ByShell
    /\ line.family = "fish"
    /\ engine_incomplete # ""
    /\ engine_args # <<>>
    /\ engine_args[Len(engine_args)] = engine_incomplete
    /\ Len(engine_args) < Len(split_arg_string(COMP_WORDS)) - 1

\* The bash adapter met a cursor past the last word.
C13_WitnessPastLastWord ==
    /\ Completed
    /\ ByShell
    /\ line.family = "bash"
    /\ int(COMP_CWORD).value >= Len(split_arg_string(COMP_WORDS))
    /\ engine_args # <<>>
    /\ engine_incomplete = ""

\* The zsh adapter met a cursor in the middle of the line.
C13_WitnessMidLine ==
    /\ Completed
    /\ ByShell
    /\ line.family = "zsh"
    /\ line.cursor + 1 < Len(line.words)
    /\ engine_incomplete = line.words[line.cursor + 1]

\* A candidate carries a description: its help is neither None nor empty.
HasDescription(item) == item[3] \notin {None, ""}

\* C14: each adapter emits the candidates in the engine's order, one record
\* per candidate.  The zsh adapter emits the value line and then a line
\* holding the description, "_" exactly when there is none; the fish
\* adapter emits "type,value" and appends a tab and the description exactly
\* when there is one; the bash adapter emits "type,value" only.
C14_LineProtocol ==
    Completed =>
        CASE MethodOwner(completion_class) = "BashComplete" ->
                 /\ Len(output) = Len(completions)
                 /\ \A n \in 1..Len(completions) :
                        output[n] = completions[n][1] \o "," \o completions[n][2]
          [] MethodOwner(completion_class) = "ZshComplete" ->
                 /\ Len(output) = 2 * Len(completions)
                 /\ \A n \in 1..Len(completions) :
                        /\ output[2 * n - 1] = completions[n][2]
                        /\ output[2 * n] =
                               IF HasDescription(completions[n])
                               THEN completions[n][3]
                               ELSE "_"
          [] MethodOwner(completion_class) = "FishComplete" ->
                 /\ Len(output) = Len(completions)
                 /\ \A n \in 1..Len(completions) :
                        LET plain == completions[n][1] \o "," \o completions[n][2]
                        IN  output[n] =
                                IF HasDescription(completions[n])
                                THEN plain \o "\t" \o completions[n][3]
                                ELSE plain

\* The zsh adapter emitted a candidate with a description after one whose
\* help is the empty string.
C14_Witness ==
    /\ Completed
    /\ MethodOwner(completion_class) = "ZshComplete"
    /\ Len(completions) = 2
    /\ completions[1][3] = ""
    /\ output[2] = "_"
    /\ output[4] = completions[2][3]

\* The fish adapter emitted a candidate with and one without a description.
C14_WitnessFish ==
    /\ Completed
    /\ MethodOwner(completion_class) = "FishComplete"
    /\ \E n, m \in 1..Len(completions) :
           /\ HasDescription(completions[n])
           /\ completions[m][3] = None
           /\ Len(output[n]) > Len(output[m])

\* shell_complete has split its instruction.
Dispatched == spc \in {"source", "complete", "returned", "raised"}

\* shell_complete is over, by return or by exception.
Finished == spc \in {"returned", "raised"}

\* The position of the first underscore of a string, 0 when it has none.
FirstUnderscore(str) ==
    IF \E k \in 1..Len(str) : SubSeq(str, k, k) = "_"
    THEN Lowest({k \in 1..Len(str) : SubSeq(str, k, k) = "_"})
    ELSE 0

\* The call ended in an exception: nothing was returned, nothing emitted.
RaisedOnly(exception) ==
    /\ spc = "raised"
    /\ raised = exception
    /\ returned = None
    /\ output = <<>>

\* The ways bash_version_not_usable fails to report on bash.
BashProbeErrors == BashVersionChecks \ {"True", "False"}

\* C15: shell_complete splits the instruction at its first underscore into
\* command and shell, and takes the whole string as the command and "bash"
\* as the shell when there is none.  For "source" it emits the activation
\* script of the shell's adapter and returns True; for "complete" it
\* returns the adapter's result, which is True; for every other command it
\* returns False, has emitted nothing and has instantiated no adapter.  A
\* call ends in an exception instead, with nothing emitted and nothing
\* returned, in these cases and no others: the base adapter serves the shell
\* (C16); "source" meets a bash adapter whose bash is older than 4.4 or
\* cannot be asked; "complete" finds COMP_WORDS or COMP_CWORD unset, or a
\* bash or zsh adapter finds COMP_CWORD not to be a number.  A request a
\* shell's own completion function makes of its own adapter always returns.
C15_Dispatch ==
    /\ Dispatched =>
           LET k == FirstUnderscore(complete_instr)
           IN  IF k = 0
               THEN command = complete_instr /\ shell = "bash"
               ELSE /\ command \o "_" \o shell = complete_instr
                    /\ Len(command) = k - 1
    /\ Finished =>
           CASE command = "source" ->
                    /\ completion_class = get_completion_source(available_shells, shell)
                    /\ IF MethodOwner(completion_class) = "ShellComplete"
                       THEN RaisedOnly("NotImplementedError")
                       ELSE IF spc = "raised"
                       THEN /\ MethodOwner(completion_class) = "BashComplete"
                            /\ \E e \in BashProbeErrors \cup {"Exception"} :
                                   RaisedOnly(e)
                       ELSE /\ spc = "returned"
                            /\ returned = "True"
                            /\ raised = None
                            /\ Len(output) = 1
                            /\ StartsWith(output[1], source_template(completion_class))
             [] command = "complete" ->
                    /\ completion_class = get_completion_source(available_shells, shell)
                    /\ IF MethodOwner(completion_class) = "ShellComplete"
                       THEN RaisedOnly("NotImplementedError")
                       ELSE IF COMP_WORDS = None \/ COMP_CWORD = None
                       THEN RaisedOnly("KeyError")
                       ELSE IF /\ MethodOwner(completion_class) # "FishComplete"
                               /\ int(COMP_CWORD).raised # None
                       THEN RaisedOnly("ValueError")
                       ELSE /\ spc = "returned"
                            /\ returned = "True"
                            /\ raised = None
                    /\ ByShell => spc = "returned" /\ returned = "True"
             [] OTHER ->
                    /\ spc = "returned"
                    /\ returned = "False"
                    /\ raised = None
                    /\ output = <<>>
                    /\ completion_class = None

\* "source_zsh": the zsh script was emitted and True returned.
C15_Witness ==
    /\ spc = "returned"
    /\ complete_instr = "source_zsh"
    /\ command = "source"
    /\ shell = "zsh"
    /\ returned = "True"
    /\ output # <<>>

\* An unknown command that holds an underscore was answered with False.
C15_WitnessOtherCommand ==
    /\ spc = "returned"
    /\ command = "completed"
    /\ shell = "zsh"
    /\ returned = "False"

\* "complete" without an underscore went to the bash adapter.
C15_WitnessDefaultShell ==
    /\ spc = "returned"
    /\ complete_instr = "complete"
    /\ shell = "bash"
    /\ completion_class = "BashComplete"
    /\ returned = "True"

\* C16: a "source" or "complete" instruction that names a shell missing
\* from the registry is served by the base class ShellComplete, whose
\* source and complete raise NotImplementedError: nothing is emitted and
\* nothing, so no success flag, is returned.
C16_UnknownShell ==
    (/\ Finished
     /\ command \in {"source", "complete"}
     /\ shell \notin DOMAIN available_shells) =>
        /\ completion_class = "ShellComplete"
        /\ spc = "raised"
        /\ raised = "NotImplementedError"
        /\ output = <<>>
        /\ returned = None

\* "source_tcsh" ended in NotImplementedError.
C16_Witness ==
    /\ spc = "raised"
    /\ complete_instr = "source_tcsh"
    /\ shell = "tcsh"
    /\ shell \notin DOMAIN available_shells
    /\ raised = "NotImplementedError"

\* "complete_pwsh" with no class registered for pwsh ended the same way.
C16_WitnessComplete ==
    /\ spc = "raised"
    /\ command = "complete"
    /\ shell = "pwsh"
    /\ shell \notin DOMAIN available_shells
    /\ raised = "NotImplementedError"

\* cls extends ShellComplete: ShellComplete is its base, or the base of its
\* base, and so on up to object.
RECURSIVE ExtendsShellComplete(_)
ExtendsShellComplete(cls) ==
    IF cls \notin DOMAIN ClassBase THEN FALSE
    ELSE \/ ClassBase[cls] = "ShellComplete"
         \/ ExtendsShellComplete(ClassBase[cls])

\* C17: add_completion_class accepts a class if and only if it extends
\* ShellComplete, directly or through another adapter such as
\* BashComplete; a class that does not is rejected with an error and is
\* never in the registry.
C17_AcceptsEverySubclass ==
    /\ registration # NoRegistration =>
           /\ registration.raised = None
                  <=> ExtendsShellComplete(registration.completion_class)
           /\ registration.raised = None =>
                  /\ registration.name \in DOMAIN available_shells
                  /\ available_shells[registration.name] = registration.completion_class
    /\ \A name \in DOMAIN available_shells :
           ExtendsShellComplete(available_shells[name])

\* What the code does hold to: a class is accepted if and only if its
\* immediate base is ShellComplete.
C17_AcceptsDirectSubclasses ==
    /\ registration # NoRegistration =>
           /\ registration.raised = None
                  <=> ClassBase[registration.completion_class] = "ShellComplete"
           /\ registration.raised = None =>
                  /\ registration.name \in DOMAIN available_shells
                  /\ available_shells[registration.name] = registration.completion_class
    /\ \A name \in DOMAIN available_shells :
           ClassBase[available_shells[name]] = "ShellComplete"

\* The shell names a lookup is made with: the names classes are registered
\* under, the built-in ones and one nobody registers.
LookupNames == ShellNames \cup DOMAIN BuiltinShells \cup {"tcsh"}

\* What get_completion_source answers for every name, given the registry.
Lookup(shells) == [n \in LookupNames |-> get_completion_source(shells, n)]

\* The answers before any registration: the built-in adapter for "bash",
\* "fish" and "zsh", the base class for any other name.
BuiltinLookup ==
    [n \in LookupNames |->
        IF n \in DOMAIN BuiltinShells THEN BuiltinShells[n] ELSE "ShellComplete"]

\* C22: the registry is a last-writer-wins map that only grows.  Before any
\* registration a lookup answers the built-in adapter for "bash", "fish"
\* and "zsh" and ShellComplete for any other name.  A successful
\* add_completion_class changes the answer for its name to its class and no
\* other answer; a rejected one changes no binding; nothing else changes the
\* registry, and no step removes a name from it.  So the last call, when it
\* succeeded, is what a lookup of its name answers, and the class
\* shell_complete instantiates is the registry's answer for the shell.
C22_LastWriterWins ==
    /\ [](registrations = 0 => Lookup(available_shells) = BuiltinLookup)
    /\ [][registrations' # registrations =>
              IF registration'.raised = None
              THEN Lookup(available_shells') =
                       [Lookup(available_shells) EXCEPT
                           ![registration'.name] = registration'.completion_class]
              ELSE available_shells' = available_shells]_vars
    /\ [][registrations' = registrations
              => available_shells' = available_shells]_vars
    /\ [][DOMAIN available_shells \subseteq DOMAIN available_shells']_vars
    /\ [](registration.name # None /\ registration.raised = None =>
              get_completion_source(available_shells, registration.name)
                  = registration.completion_class)
    /\ [](completion_class # None =>
              completion_class = get_completion_source(available_shells, shell))

\* Two registrations were made, the second under "bash" and accepted, and a
\* script was then asked for bash: the class registered last served it,
\* not the built-in one.
C22_Witness ==
    /\ registrations = 2
    /\ registration = [name |-> "bash", completion_class |-> "FishComplete",
                       raised |-> None]
    /\ spc = "returned"
    /\ command = "source"
    /\ shell = "bash"
    /\ completion_class = "FishComplete"

\* A rejected second registration under "pwsh" left the first one's binding.
C22_WitnessRejected ==
    /\ registrations = 2
    /\ registration.name = "pwsh"
    /\ registration.raised = "Exception"
    /\ available_shells["bash"] = "BashComplete"
    /\ "pwsh" \in DOMAIN available_shells
    /\ available_shells["pwsh"] = "PowerShellComplete"


============================================================================
